---- MODULE Spec2Model ----
(***************************************************************************)
(* Relationship detection and temporal consistency of the research paper   *)
(* knowledge graph: the paper store, the relationship store, the pairwise  *)
(* detection runs (incremental ingestion, full sweeps, all-vs-all          *)
(* regeneration), the consistency auditors (delete and reverse) and the    *)
(* rate limiter of the parallel sweep.                                     *)
(*                                                                         *)
(* Conventions.  Confidences are percentages (0.6 is 60).  A document id   *)
(* computed by sha256 over (source, target, type) is modelled by the       *)
(* triple itself, i.e. the hash is taken to be collision free.  The        *)
(* classifier (an LLM at temperature > 0) is a nondeterministic choice of  *)
(* its raw response at every call.                                         *)
(*                                                                         *)
(* The scripts and the calls of ingest_paper are processes of their own.   *)
(* A step of a process is one access to a collection together with the     *)
(* computation that leads to it; between two steps of a process any other  *)
(* process may take steps.  A specification fixes which processes run and  *)
(* what the classifier and the store may answer through the parameters of  *)
(* the actions, never through their guards.                                *)
(***************************************************************************)
EXTENDS Integers, Sequences, FiniteSets, TLC

(***************************************************************************)
(* Bounds of the model.                                                    *)
(***************************************************************************)
MaxRels == 2

PaperIds == {"p1", "p2", "p3"}

Types == {"supports", "contradicts", "extends"}

(***************************************************************************)
(* Dates: relationship_agent.parse_date and get_paper_date.                *)
(***************************************************************************)
NoDate == [ok |-> FALSE, t |-> 0, aware |-> FALSE]

Date(t, aware) == [ok |-> TRUE, t |-> t, aware |-> aware]

DateStrings ==
  {"", "garbage", "2019-06-01T00:00:00+00:00", "2021-06-01T00:00:00Z", "2020"}

\* datetime.fromisoformat(s.replace('Z', '+00:00')), then the strptime
\* formats; the instant is kept as year*100+month, with its tz-awareness.
parse_date(s) ==
  CASE s = "" -> NoDate
    [] s = "2019-06-01T00:00:00+00:00" -> Date(201906, TRUE)
    [] s = "2021-06-01T00:00:00Z" -> Date(202106, TRUE)
    [] s = "2020" -> Date(202001, FALSE)
    [] OTHER -> NoDate

NoPaper == [present |-> FALSE, published |-> "", updated |-> ""]

Paper(pub, upd) == [present |-> TRUE, published |-> pub, updated |-> upd]

get_paper_date(paper) ==
  IF paper.published # "" /\ parse_date(paper.published).ok
  THEN parse_date(paper.published)
  ELSE IF paper.updated # "" /\ parse_date(paper.updated).ok
       THEN parse_date(paper.updated)
       ELSE NoDate

\* a < b on datetimes raises TypeError when exactly one is tz-aware
CompareRaises(a, b) == a.ok /\ b.ok /\ a.aware # b.aware

DateLess(a, b) == a.t < b.t

\* the check of relationship_agent.py:294-302 (and its copies in the
\* scripts): "skip", "raise" (TypeError) or "classify"
TemporalCheck(newDate, existingDate) ==
  IF newDate.ok /\ existingDate.ok
  THEN IF CompareRaises(newDate, existingDate) THEN "raise"
       ELSE IF DateLess(newDate, existingDate) THEN "skip" ELSE "classify"
  ELSE "classify"

(***************************************************************************)
(* The relationship store: firestore_client.store_relationship.            *)
(***************************************************************************)
\* sha256(f"{source}_{target}_{type}")[:16], taken as collision free
Sha(s, t, ty) == [kind |-> "sha", s |-> s, t |-> t, ty |-> ty, n |-> 0]

\* the random id of collection.add()
AutoId(n) == [kind |-> "auto", s |-> "", t |-> "", ty |-> "", n |-> n]

\* the 'evidence' text of a classifier result
Evidence == "evidence"

RelData(s, t, ty, c) ==
  [source_paper_id |-> s, target_paper_id |-> t,
   relationship_type |-> ty, confidence |-> c, evidence |-> Evidence]

Doc(id, rel, at) ==
  [id |-> id, source_paper_id |-> rel.source_paper_id,
   target_paper_id |-> rel.target_paper_id,
   relationship_type |-> rel.relationship_type,
   confidence |-> rel.confidence, evidence |-> rel.evidence,
   detected_at |-> at]

\* a document id that also depends on the confidence
relationship_id_per_confidence(rel) ==
  [kind |-> "sha", s |-> rel.source_paper_id, t |-> rel.target_paper_id,
   ty |-> rel.relationship_type, n |-> rel.confidence]

relationship_id(rel) ==
  Sha(rel.source_paper_id, rel.target_paper_id, rel.relationship_type)

\* document(relationship_id).set(doc_data): an upsert on the document id;
\* detected_at is the server timestamp of the write
store_relationship(st, rel, at) ==
  {r \in st : r.id # relationship_id(rel)}
    \cup {Doc(relationship_id(rel), rel, at)}

Edges(st) ==
  {<<r.source_paper_id, r.target_paper_id, r.relationship_type>> : r \in st}

(***************************************************************************)
(* The classifier: RelationshipAgent.detect_relationship.                  *)
(***************************************************************************)
Json(ty, c) == [kind |-> "json", type |-> ty, confidence |-> c]

Malformed == [kind |-> "malformed", type |-> "none", confidence |-> 0]

\* an exception other than JSONDecodeError, ValueError, KeyError (transport
\* error, a reply without text, a non numeric confidence of None)
Error == [kind |-> "error", type |-> "none", confidence |-> 0]

RawResponses ==
  {Json("contradicts", 45), Json("contradicts", 65), Json("contradicts", 75),
   Json("extends", 65), Json("supports", 65), Json("none", 75),
   Json("bogus", 75), Malformed, Error}

valid_types == Types \cup {"none"}

Min(a, b) == IF a < b THEN a ELSE b

Max(a, b) == IF a > b THEN a ELSE b

NoneResult == [relationship_type |-> "none", confidence |-> 0]

\* the value returned for a raw response that does not raise
detect_relationship(raw) ==
  IF raw.kind = "json"
  THEN [relationship_type |->
          IF raw.type \in valid_types THEN raw.type ELSE "none",
        confidence |-> Max(0, Min(100, raw.confidence))]
  ELSE NoneResult

RaiseOutcome == [raises |-> TRUE, res |-> NoneResult]

\* what one invocation of the classifier does: raise, or return a result
Outcome(raw) ==
  IF raw.kind = "error" THEN RaiseOutcome
  ELSE [raises |-> FALSE, res |-> detect_relationship(raw)]

Outcomes == {Outcome(raw) : raw \in RawResponses}

(***************************************************************************)
(* Thresholds.                                                             *)
(***************************************************************************)
min_confidence == 60

\* one bar of 0.5 for every type
thresholds_uniform(ty) == 50

\* thresholds.get(rel_type, 0.6) of the selective mode
thresholds(ty) ==
  CASE ty = "contradicts" -> 70
    [] ty = "extends" -> 50
    [] ty = "supports" -> 50
    [] OTHER -> 60

\* relationship_agent.py:308
BatchAccepts(res, minc) ==
  res.confidence >= minc /\ res.relationship_type # "none"

\* relationship_agent.py:394-400
FilteredAccepts(res) ==
  res.relationship_type # "none"
    /\ res.confidence >= thresholds(res.relationship_type)

(***************************************************************************)
(* RelationshipAgent.detect_relationships_batch.                           *)
(***************************************************************************)
PaperOrder == <<"p1", "p2", "p3">>

\* FirestoreClient.get_all_papers: the documents in document id order
get_all_papers(ps) == SelectSeq(PaperOrder, LAMBDA p : ps[p].present)

NoBatch == [status |-> "ok", rels |-> <<>>, calls |-> <<>>]

\* new: id of the new paper, newDate: get_paper_date(new_paper),
\* existing: ids of existing_papers, raw: the classifier's outcome for each
\* candidate.  status "raise" is an exception leaving the method.
\* a loop without the test for the new paper's own id
RECURSIVE detect_relationships_batch_comparing_self(_, _, _, _, _, _, _)
detect_relationships_batch_comparing_self(new, newDate, existing, ps, raw, minc, acc) ==
  IF existing = <<>> THEN acc
  ELSE LET e == Head(existing)
           chk == TemporalCheck(newDate, get_paper_date(ps[e]))
           res == IF e = new THEN Outcome(Json("supports", 65)).res
                  ELSE raw[e].res
           rel == RelData(new, e, res.relationship_type, res.confidence)
       IN  IF chk = "raise" THEN [acc EXCEPT !.status = "raise"]
           ELSE IF chk = "skip"
           THEN detect_relationships_batch_comparing_self(
                  new, newDate, Tail(existing), ps, raw, minc, acc)
           ELSE IF e # new /\ raw[e].raises
           THEN [acc EXCEPT !.status = "raise",
                            !.calls = Append(@, <<new, e>>)]
           ELSE detect_relationships_batch_comparing_self(
                  new, newDate, Tail(existing), ps, raw, minc,
                  [acc EXCEPT
                     !.calls = Append(@, <<new, e>>),
                     !.rels = IF BatchAccepts(res, minc)
                              THEN Append(@, rel) ELSE @])

RECURSIVE detect_relationships_batch(_, _, _, _, _, _, _)
detect_relationships_batch(new, newDate, existing, ps, raw, minc, acc) ==
  IF existing = <<>> THEN acc
  ELSE LET e == Head(existing)
           chk == TemporalCheck(newDate, get_paper_date(ps[e]))
       IN  IF new = e
           THEN detect_relationships_batch(new, newDate, Tail(existing), ps,
                                           raw, minc, acc)
           ELSE IF chk = "raise" THEN [acc EXCEPT !.status = "raise"]
           ELSE IF chk = "skip"
           THEN detect_relationships_batch(new, newDate, Tail(existing), ps,
                                           raw, minc, acc)
           ELSE IF raw[e].raises
           THEN [acc EXCEPT !.status = "raise",
                            !.calls = Append(@, <<new, e>>)]
           ELSE LET res == raw[e].res
                    rel == RelData(new, e, res.relationship_type,
                                   res.confidence)
                IN  detect_relationships_batch(
                      new, newDate, Tail(existing), ps, raw, minc,
                      [acc EXCEPT
                         !.calls = Append(@, <<new, e>>),
                         !.rels = IF BatchAccepts(res, minc)
                                  THEN Append(@, rel) ELSE @])

(***************************************************************************)
(* Full sweep: regenerate_all_relationships(.py, _parallel.py).            *)
(***************************************************************************)
\* key=lambda x: x[1] if x[1] else datetime.min (a naive datetime)
SortKey(ps, p) ==
  IF get_paper_date(ps[p]).ok THEN get_paper_date(ps[p]) ELSE Date(0, FALSE)

\* list.sort compares a naive key with an aware one: TypeError
SortRaises(ids, ps) ==
  \E i, j \in 1..Len(ids) :
    SortKey(ps, ids[i]).aware # SortKey(ps, ids[j]).aware

\* an ascending insertion: oldest first
RECURSIVE InsertNewestFirst_ascending(_, _, _)
InsertNewestFirst_ascending(x, s, ps) ==
  IF s = <<>> THEN <<x>>
  ELSE IF SortKey(ps, Head(s)).t <= SortKey(ps, x).t
       THEN <<Head(s)>> \o InsertNewestFirst_ascending(x, Tail(s), ps)
       ELSE <<x>> \o s

RECURSIVE InsertNewestFirst(_, _, _)
InsertNewestFirst(x, s, ps) ==
  IF s = <<>> THEN <<x>>
  ELSE IF SortKey(ps, Head(s)).t >= SortKey(ps, x).t
       THEN <<Head(s)>> \o InsertNewestFirst(x, Tail(s), ps)
       ELSE <<x>> \o s

\* sort(key=..., reverse=True): descending and stable
RECURSIVE SortNewestFirst(_, _)
SortNewestFirst(s, ps) ==
  IF s = <<>> THEN <<>>
  ELSE InsertNewestFirst(s[Len(s)],
                         SortNewestFirst(SubSeq(s, 1, Len(s) - 1), ps), ps)

\* batch_size of process_paper_batch: the pairs of one paper go to the
\* pool ten at a time
batch_size == 10

\* the orders in which the scheduler can run the classifier calls for the
\* older papers submitted: the threads of one batch run in any order, a
\* batch starts when the batch before it has been collected
Schedules(older) ==
  LET n == Len(older) IN
  {[k \in 1..n |-> older[s[k]]] :
     s \in {f \in [1..n -> 1..n] :
              /\ \A j, k \in 1..n : f[j] = f[k] => j = k
              /\ \A k \in 1..n :
                   (f[k] - 1) \div batch_size = (k - 1) \div batch_size}}

\* a collection loop without the test for 'none'
RECURSIVE process_paper_batch_keeping_none(_, _, _, _, _, _)
process_paper_batch_keeping_none(new, older, sched, raw, minc, acc) ==
  IF older = <<>> THEN acc
  ELSE LET e == Head(older)
           res == raw[e].res
           rel == RelData(new, e, res.relationship_type, res.confidence)
           m == Len(acc.calls) + 1
           acc1 == [acc EXCEPT !.calls = Append(@, <<new, sched[m]>>)]
       IN  IF raw[e].raises
           THEN process_paper_batch_keeping_none(new, Tail(older), sched,
                                                 raw, minc, acc1)
           ELSE process_paper_batch_keeping_none(
                  new, Tail(older), sched, raw, minc,
                  [acc1 EXCEPT !.rels = IF res.confidence >= minc
                                        THEN Append(@, rel) ELSE @])

\* every older paper is submitted to the pool, so the classifier is invoked
\* for each; an exception of future.result drops that pair only.  The
\* results are collected in the order of submission; sched[k] is the
\* older paper of the k-th classifier call made
RECURSIVE process_paper_batch(_, _, _, _, _, _)
process_paper_batch(new, older, sched, raw, minc, acc) ==
  IF older = <<>> THEN acc
  ELSE LET e == Head(older)
           res == raw[e].res
           rel == RelData(new, e, res.relationship_type, res.confidence)
           m == Len(acc.calls) + 1
           acc1 == [acc EXCEPT !.calls = Append(@, <<new, sched[m]>>)]
       IN  IF raw[e].raises
           THEN process_paper_batch(new, Tail(older), sched, raw, minc, acc1)
           ELSE process_paper_batch(
                  new, Tail(older), sched, raw, minc,
                  [acc1 EXCEPT !.rels = IF BatchAccepts(res, minc)
                                        THEN Append(@, rel) ELSE @])

(***************************************************************************)
(* regenerate_lost_relationships.py: existing_pairs (62-74).               *)
(***************************************************************************)
\* existing_pairs, built once from the relationships read at the start
ExistingPairs(st) ==
  {<<r.source_paper_id, r.target_paper_id>> : r \in st}
    \cup {<<r.target_paper_id, r.source_paper_id>> : r \in st}

(***************************************************************************)
(* regenerate_options_5_6_only.py.                                         *)
(***************************************************************************)
\* the order of str on the 'published' strings of DateStrings
StrRank(str) ==
  CASE str = "" -> 0
    [] str = "2019-06-01T00:00:00+00:00" -> 1
    [] str = "2020" -> 2
    [] str = "2021-06-01T00:00:00Z" -> 3
    [] OTHER -> 4

RECURSIVE InsertByPublished(_, _, _)
InsertByPublished(x, s, ps) ==
  IF s = <<>> THEN <<x>>
  ELSE IF StrRank(ps[Head(s)].published) <= StrRank(ps[x].published)
       THEN <<Head(s)>> \o InsertByPublished(x, Tail(s), ps)
       ELSE <<x>> \o s

\* all_papers.sort(key=lambda p: p.get('published', ''))
RECURSIVE SortByPublished(_, _)
SortByPublished(s, ps) ==
  IF s = <<>> THEN <<>>
  ELSE InsertByPublished(s[Len(s)],
                         SortByPublished(SubSeq(s, 1, Len(s) - 1), ps), ps)

\* the loop over existing_paper (107-141); an exception of the classifier
\* is not caught anywhere in the script
RECURSIVE Opt56Inner(_, _, _, _, _)
Opt56Inner(a, bs, ps, raw, acc) ==
  IF bs = <<>> THEN acc
  ELSE LET b == Head(bs)
           chk == TemporalCheck(get_paper_date(ps[a]), get_paper_date(ps[b]))
           res == raw[b].res
           rel == RelData(a, b, res.relationship_type, res.confidence)
           acc1 == [acc EXCEPT !.calls = Append(@, <<a, b>>)]
       IN  IF a = b THEN Opt56Inner(a, Tail(bs), ps, raw, acc)
           ELSE IF chk = "raise" THEN [acc EXCEPT !.status = "raise"]
           ELSE IF chk = "skip" THEN Opt56Inner(a, Tail(bs), ps, raw, acc)
           ELSE IF raw[b].raises THEN [acc1 EXCEPT !.status = "raise"]
           ELSE Opt56Inner(a, Tail(bs), ps, raw,
                           [acc1 EXCEPT !.rels = IF FilteredAccepts(res)
                                                 THEN Append(@, rel) ELSE @])

(***************************************************************************)
(* Similarity filtered detection: embeddings.find_similar_papers and       *)
(* RelationshipAgent.detect_relationships_batch_filtered.                  *)
(***************************************************************************)
\* sim[q]: cosine similarity (percent) of q's cached embedding to the new
\* paper's, NoEmbedding when q is not in embeddings_cache
NoEmbedding == -1

RECURSIVE InsertBySimilarity(_, _, _)
InsertBySimilarity(x, s, sim) ==
  IF s = <<>> THEN <<x>>
  ELSE IF sim[Head(s)] >= sim[x]
       THEN <<Head(s)>> \o InsertBySimilarity(x, Tail(s), sim)
       ELSE <<x>> \o s

RECURSIVE SortBySimilarity(_, _)
SortBySimilarity(s, sim) ==
  IF s = <<>> THEN <<>>
  ELSE InsertBySimilarity(s[Len(s)],
                          SortBySimilarity(SubSeq(s, 1, Len(s) - 1), sim),
                          sim)

\* the first top_k of the list as it was built, without the sort
find_similar_papers_unsorted(paper, all_papers, sim, top_k, min_similarity) ==
  LET similarities ==
        SelectSeq(all_papers,
                  LAMBDA q : q # paper /\ sim[q] # NoEmbedding
                               /\ sim[q] >= min_similarity)
  IN  SubSeq(similarities, 1, Min(top_k, Len(similarities)))

\* for a paper that is in the cache
find_similar_papers(paper, all_papers, sim, top_k, min_similarity) ==
  LET similarities ==
        SortBySimilarity(
          SelectSeq(all_papers,
                    LAMBDA q : q # paper /\ sim[q] # NoEmbedding
                                 /\ sim[q] >= min_similarity), sim)
  IN  SubSeq(similarities, 1, Min(top_k, Len(similarities)))

RECURSIVE FilteredLoop(_, _, _, _, _, _)
FilteredLoop(new, newDate, similar, ps, raw, acc) ==
  IF similar = <<>> THEN acc
  ELSE LET e == Head(similar)
           chk == TemporalCheck(newDate, get_paper_date(ps[e]))
           res == raw[e].res
           rel == RelData(new, e, res.relationship_type, res.confidence)
           acc1 == [acc EXCEPT !.calls = Append(@, <<new, e>>)]
       IN  IF chk = "raise" THEN [acc EXCEPT !.status = "raise"]
           ELSE IF chk = "skip"
           THEN FilteredLoop(new, newDate, Tail(similar), ps, raw, acc)
           ELSE IF raw[e].raises THEN [acc1 EXCEPT !.status = "raise"]
           ELSE FilteredLoop(new, newDate, Tail(similar), ps, raw,
                             [acc1 EXCEPT !.rels = IF FilteredAccepts(res)
                                                   THEN Append(@, rel)
                                                   ELSE @])

detect_relationships_batch_filtered(new, newDate, existing, ps, sim, top_k, min_similarity, raw) ==
  IF sim[new] = NoEmbedding \/ existing = <<>>
  THEN [NoBatch EXCEPT !.status = "raise"]
  ELSE FilteredLoop(new, newDate,
                    find_similar_papers(new, existing, sim, top_k,
                                        min_similarity),
                    ps, raw, NoBatch)

(***************************************************************************)
(* The auditors: cleanup_temporal_violations (delete strategy) and         *)
(* reverse_temporal_violations (reverse strategy).                         *)
(***************************************************************************)
\* the relationships collection streamed in some order of the document
\* ids; the ids are hashes or random, the order is left open
Streams(st) ==
  {f \in [1..Cardinality(st) -> st] :
     \A i, j \in 1..Cardinality(st) : i # j => f[i] # f[j]}

\* limit=10000 at cleanup_temporal_violations.py:147
cleanup_limit == 10000

get_all_relationships(stream, limit) ==
  SubSeq(stream, 1, Min(limit, Len(stream)))

\* an audit that flags equal dates as well
RECURSIVE find_temporal_violations_inclusive(_, _, _)
find_temporal_violations_inclusive(rels, ps, acc) ==
  IF rels = <<>> THEN [status |-> "ok", violations |-> acc]
  ELSE LET rel == Head(rels)
           source_date == get_paper_date(ps[rel.source_paper_id])
           target_date == get_paper_date(ps[rel.target_paper_id])
       IN  IF ~ps[rel.source_paper_id].present
              \/ ~ps[rel.target_paper_id].present
              \/ ~(source_date.ok /\ target_date.ok)
           THEN find_temporal_violations_inclusive(Tail(rels), ps, acc)
           ELSE IF CompareRaises(source_date, target_date)
           THEN [status |-> "raise", violations |-> acc]
           ELSE IF ~DateLess(target_date, source_date)
           THEN find_temporal_violations_inclusive(Tail(rels), ps,
                                                   Append(acc, rel))
           ELSE find_temporal_violations_inclusive(Tail(rels), ps, acc)

RECURSIVE find_temporal_violations(_, _, _)
find_temporal_violations(rels, ps, acc) ==
  IF rels = <<>> THEN [status |-> "ok", violations |-> acc]
  ELSE LET rel == Head(rels)
           source_paper == ps[rel.source_paper_id]
           target_paper == ps[rel.target_paper_id]
           source_date == get_paper_date(source_paper)
           target_date == get_paper_date(target_paper)
       IN  IF ~source_paper.present \/ ~target_paper.present
           THEN find_temporal_violations(Tail(rels), ps, acc)
           ELSE IF ~(source_date.ok /\ target_date.ok)
           THEN find_temporal_violations(Tail(rels), ps, acc)
           ELSE IF CompareRaises(source_date, target_date)
           THEN [status |-> "raise", violations |-> acc]
           ELSE IF DateLess(source_date, target_date)
           THEN find_temporal_violations(Tail(rels), ps, Append(acc, rel))
           ELSE find_temporal_violations(Tail(rels), ps, acc)

\* the second and later 'contradicts' documents of an unordered pair, in
\* the order of the stream
RECURSIVE find_bidirectional_contradictions(_, _, _)
find_bidirectional_contradictions(rels, seen_pairs, to_delete) ==
  IF rels = <<>> THEN to_delete
  ELSE LET rel == Head(rels)
           pair == {rel.source_paper_id, rel.target_paper_id}
       IN  IF rel.relationship_type # "contradicts"
           THEN find_bidirectional_contradictions(Tail(rels), seen_pairs,
                                                  to_delete)
           ELSE IF pair \in seen_pairs
           THEN find_bidirectional_contradictions(Tail(rels), seen_pairs,
                                                  Append(to_delete, rel.id))
           ELSE find_bidirectional_contradictions(Tail(rels),
                  seen_pairs \cup {pair}, to_delete)

\* the copies of the two audits in reverse_temporal_violations.py
find_temporal_violations_to_reverse(rels, ps, acc) ==
  find_temporal_violations(rels, ps, acc)

reverse_find_bidirectional_contradictions(rels, seen_pairs, to_delete) ==
  find_bidirectional_contradictions(rels, seen_pairs, to_delete)

SeqRange(q) == {q[k] : k \in 1..Len(q)}

delete(st, id) == {r \in st : r.id # id}

\* a document written with add() has no 'detected_at'
NoTimestamp == -1

\* a swapped record with an empty 'evidence'
Swapped_without_evidence(v) ==
  [RelData(v.target_paper_id, v.source_paper_id, v.relationship_type,
           v.confidence) EXCEPT !.evidence = ""]

\* the dict passed to add() at reverse_temporal_violations.py:224-231
Swapped(v) ==
  [RelData(v.target_paper_id, v.source_paper_id, v.relationship_type,
           v.confidence) EXCEPT !.evidence = v.evidence]

(***************************************************************************)
(* RateLimiter of regenerate_all_relationships_parallel.py.  Time is in    *)
(* tenths of a second.                                                     *)
(***************************************************************************)
\* the 60 of 'now - t < 60' and of '60 - (now - oldest)'
Window == 600

\* the 0.1 added to wait_time
Buffer == 1

\* max_calls_per_minute
max_calls == 2

Workers == {"w1", "w2"}

MaxAcq == 4

MaxTicks == 5

TickSteps == {1, 599}

\* self.calls = [t for t in self.calls if now - t < 60]
Prune(calls, now) == SelectSeq(calls, LAMBDA t : now - t < Window)

\* without the equality
AtCap_strict(calls, cap) == Len(calls) > cap

\* len(self.calls) >= self.max_calls
AtCap(calls, cap) == Len(calls) >= cap

\* wait_time = 60 - (now - oldest) + 0.1
wait_time(calls, now) == Window - (now - calls[1]) + Buffer

NewLimiter ==
  [calls |-> <<>>, lock |-> "none", pc |-> [w \in Workers |-> "idle"],
   wake |-> [w \in Workers |-> 0], acquired |-> <<>>, ticks |-> 0]

\* no batch submitted.  phase: where the thread of a job is; futures: the
\* jobs in the order of submission; next: the future the main thread is
\* waiting on, since 'since'; outcome: what became of the job's result;
\* called: how long the classifier call had run when the job was given up
NoPool ==
  [phase |-> [w \in Workers |-> "idle"], started |-> [w \in Workers |-> 0],
   futures |-> <<>>, next |-> 1, since |-> 0,
   outcome |-> [w \in Workers |-> ""], called |-> [w \in Workers |-> 0],
   batches |-> 0]

(***************************************************************************)
(* State.                                                                  *)
(***************************************************************************)
VARIABLES
  papers,    \* the papers collection: paper id -> document
  store,     \* the relationships collection: a set of documents
  clock,     \* the server's time, stamped on every write
  lastOp,    \* the step that ran last, with the classifier invocations it
             \* made, in order
  run,       \* the batch scripts: for each process where it is, what it
             \* has read and what it has still to delete or to write
  limiter,   \* the RateLimiter shared by the workers of the parallel sweep
  pool,      \* the executor of process_paper_batch: its threads and the
             \* futures the main thread collects
  ingestion, \* the calls of ingest_paper: for each call where it is and
             \* the relationships it has detected and not yet stored
  added      \* the number of documents written with add() so far

vars ==
  <<papers, store, clock, lastOp, run, limiter, pool, ingestion, added>>

\* the processes that run a script, and the calls of ingest_paper; one
\* script at a time per process, one call at a time per caller
Scripts == {"s1", "s2"}

Calls == {"c1", "c2"}

Profiles ==
  {Paper("2019-06-01T00:00:00+00:00", ""),
   Paper("2021-06-01T00:00:00Z", ""),
   Paper("", "")}

\* the counts an auditor logs in its summary
NoAudit == [violations |-> 0, duplicates |-> 0]

\* the arguments of the similarity filter: none
NoFilter == [sim |-> <<>>, top_k |-> 0, min_similarity |-> 0]

\* no paper read
NoCorpus == [p \in PaperIds |-> NoPaper]

\* step: the part of the handler or script that ran
\* replaced: the write of the step hit a document that existed already
\* accepted: the edges whose result cleared the threshold in the step
\* answer: the reply read at a confirmation prompt
\* failed: the edges whose store_relationship raised in the step
\* twin: the relationships the sequential sweep returns for the paper and
\* the answers of a step of the parallel sweep
\* returned: the list a detection call returned to a caller that stores
\* nothing
\* filter: embeddings_cache (as similarities), top_k and min_similarity of
\* a call of detect_relationships_batch_filtered
\* completed: with this step a call of ingest_paper returned, its step 4
\* having run without an exception and everything it found being stored
\* seen: the papers that call had read
Op(op, paper, cs, replaced) ==
  [op |-> op, step |-> "", paper |-> paper, calls |-> cs,
   replaced |-> replaced, audit |-> NoAudit, accepted |-> {}, answer |-> "",
   failed |-> {}, filter |-> NoFilter, twin |-> NoBatch, returned |-> <<>>,
   completed |-> FALSE, seen |-> NoCorpus]

AuditOp(op, v, d) ==
  [Op(op, "", <<>>, FALSE) EXCEPT
     !.audit = [violations |-> v, duplicates |-> d]]

EdgesOf(rels) ==
  {<<rels[k].source_paper_id, rels[k].target_paper_id,
     rels[k].relationship_type>> : k \in 1..Len(rels)}

\* without the prompt
Proceeds_always(answer) == TRUE

\* the confirmation gate of the auditors: on a terminal only 'yes'
\* proceeds, without a terminal the script proceeds
Proceeds(answer) == answer # "no"

Replaces(st, rels) ==
  \E k \in 1..Len(rels) : \E r \in st : r.id = relationship_id(rels[k])

Present(ps) == {p \in PaperIds : ps[p].present}

\* a process that runs no script.  pc: the access to the collections the
\* script makes next; corpus: the papers as get_all_papers returned them;
\* order: the list the loop runs over, i and j: where the loops are;
\* relationships: the documents an auditor has read; violations: those it
\* has still to reverse; listed: the ids it has still to delete; pending:
\* the relationships found for paper i and not yet stored, found: all the
\* edges found for it; calls: the classifier invocations of the run;
\* failed: the kinds of write that raised and were logged; again: the run
\* before it in this process was a completed run of the same script
NoRun ==
  [kind |-> "none", status |-> "idle", pc |-> "", corpus |-> NoCorpus,
   order |-> <<>>, i |-> 0, j |-> 0, existing_pairs |-> {}, calls |-> <<>>,
   relationships |-> <<>>, violations |-> <<>>, listed |-> <<>>,
   pending |-> <<>>, found |-> {}, answer |-> "", failed |-> {},
   again |-> FALSE]

\* the script has started
Begun(kind) == [NoRun EXCEPT !.kind = kind, !.status = "running"]

\* the script has ended: what it held in memory is gone
End(r, status) ==
  [NoRun EXCEPT !.kind = r.kind, !.status = status, !.calls = r.calls,
                !.relationships = r.relationships, !.found = r.found,
                !.answer = r.answer, !.failed = r.failed,
                !.again = r.again]

\* the operator's reply at the confirmation prompt, or no terminal
Answers == {"yes", "no", "notty"}

IngestIds == {"p1", "p2"}

\* no call of ingest_paper in progress.  meta: what the indexer will
\* write; pending: the relationships detected and not yet stored;
\* relationships: all that were detected; existing_papers: the corpus the
\* call read; repeat: the call started when a call for the same paper had
\* just completed on the corpus as it is
NoIngestion ==
  [paper |-> "", pc |-> "idle", meta |-> NoPaper,
   enable_relationships |-> FALSE, existing_papers |-> NoCorpus,
   relationships |-> <<>>, pending |-> <<>>, repeat |-> FALSE]

\* nothing has run yet
Quiet ==
  /\ clock = 0
  /\ lastOp = Op("init", "", <<>>, FALSE)
  /\ run = [s \in Scripts |-> NoRun]
  /\ limiter = NewLimiter
  /\ pool = NoPool
  /\ ingestion = [c \in Calls |-> NoIngestion]
  /\ added = 0

InitDetect ==
  /\ papers \in [PaperIds -> Profiles \cup {NoPaper}]
  /\ papers["p1"].present /\ ~papers["p3"].present
  /\ store = {}
  /\ Quiet

(***************************************************************************)
(* Papers: FirestoreClient.store_paper, update_paper, delete_paper and the *)
(* scripts that call them.                                                 *)
(***************************************************************************)
\* document(paper_id).set(doc_data): the document is written whether or
\* not a paper with this id is stored; 'published' and 'updated' are those
\* of paper_data
store_paper(ps, paper_id, paper_data) ==
  [ps EXCEPT ![paper_id] = Paper(paper_data.published, paper_data.updated)]

\* the scripts that add papers (add_papers.py:162, add_ai_papers.py:109,
\* add_stat_ml_papers.py:127, seed_demo_data.py:113)
StorePaper ==
  \E paper_id \in IngestIds : \E paper_data \in Profiles :
    /\ papers' = store_paper(papers, paper_id, paper_data)
    /\ lastOp' = Op("store_paper", paper_id, <<>>, FALSE)
    /\ UNCHANGED <<store, clock, run, limiter, pool, ingestion, added>>

\* update(updates) on a stored paper: the fields named in 'updates' are
\* overwritten and the others kept; False for a paper that is not stored
update_paper(ps, paper_id, updates) ==
  IF ps[paper_id].present
  THEN [ps EXCEPT ![paper_id] =
          [f \in DOMAIN @ |-> IF f \in DOMAIN updates THEN updates[f] ELSE @[f]]]
  ELSE ps

\* the dates among the updates: 'published' alone, or 'published' and
\* 'updated' as backfill_paper_metadata.py:96 writes them
PaperUpdates ==
  {[published |-> paper_data.published] : paper_data \in Profiles}
    \cup {[published |-> paper_data.published, updated |-> paper_data.updated] :
            paper_data \in Profiles}

\* FirestoreClient.update_paper and backfill_paper_metadata.py:96
UpdatePaper ==
  \E paper_id \in IngestIds : \E updates \in PaperUpdates :
    /\ papers' = update_paper(papers, paper_id, updates)
    /\ lastOp' = Op("update_paper", paper_id, <<>>, FALSE)
    /\ UNCHANGED <<store, clock, run, limiter, pool, ingestion, added>>

delete_paper(ps, paper_id) ==
  IF ps[paper_id].present THEN [ps EXCEPT ![paper_id] = NoPaper] ELSE ps

DeletePaper ==
  \E paper_id \in PaperIds :
    /\ papers' = delete_paper(papers, paper_id)
    /\ lastOp' = Op("delete_paper", paper_id, <<>>, FALSE)
    /\ UNCHANGED <<store, clock, run, limiter, pool, ingestion, added>>

\* one pass of the loop of cleanup_demo_papers (41-44): the script has
\* listed the stored papers without 'pdf_path' or 'key_finding' and
\* deletes them one by one
CleanupDemoPapers ==
  \E paper_id \in Present(papers) :
    /\ papers' = [papers EXCEPT ![paper_id] = NoPaper]
    /\ lastOp' = Op("cleanup_demo_papers", paper_id, <<>>, FALSE)
    /\ UNCHANGED <<store, clock, run, limiter, pool, ingestion, added>>

(***************************************************************************)
(* IngestionPipeline.ingest_paper, steps 3 and 4.  A step of the model is  *)
(* one access to a collection with the computation that leads to it; other *)
(* calls, the scripts and the clock run between two steps.                 *)
(***************************************************************************)
\* the new_paper dict built at ingestion_pipeline.py:192-197 carries no
\* 'published' and no 'updated' key
IngestNewPaperDate == get_paper_date(Paper("", ""))

\* the call starts; IndexerAgent.index asks paper_exists (80): a paper
\* that is stored is left as it is
IngestBegin(c, p, meta, enable_relationships) ==
  /\ ingestion[c].pc = "idle"
  /\ ingestion' = [ingestion EXCEPT ![c] =
       IF ~papers[p].present
       THEN [NoIngestion EXCEPT
               !.paper = p, !.pc = "index", !.meta = meta,
               !.enable_relationships = enable_relationships]
       ELSE IF enable_relationships
       THEN [NoIngestion EXCEPT
               !.paper = p, !.pc = "detect", !.enable_relationships = TRUE,
               !.repeat = /\ lastOp.completed
                          /\ lastOp.paper = p
                          /\ lastOp.seen = papers]
       ELSE NoIngestion]
  /\ lastOp' = [Op("ingest", p, <<>>, FALSE) EXCEPT !.step = "begin"]
  /\ UNCHANGED <<papers, store, clock, run, limiter, pool, added>>

\* IndexerAgent.index writes the paper (98); an exception makes index
\* return success False and ingest_paper return (177-180)
IngestIndex(c, ok) ==
  LET call == ingestion[c] IN
  /\ call.pc = "index"
  /\ papers' = IF ok THEN store_paper(papers, call.paper, call.meta)
               ELSE papers
  /\ ingestion' = [ingestion EXCEPT ![c] =
       IF ok /\ call.enable_relationships
       THEN [call EXCEPT !.pc = "detect", !.meta = NoPaper]
       ELSE NoIngestion]
  /\ lastOp' = [Op("ingest", call.paper, <<>>, FALSE) EXCEPT !.step = "index"]
  /\ UNCHANGED <<store, clock, run, limiter, pool, added>>

\* step 4 up to the return of detect_relationships_batch (189-204): the
\* corpus is read and the new paper is classified against it.  An
\* exception of get_all_papers (189) or of the classification is caught at
\* 221: the paper stays indexed and nothing is stored; when the read
\* raises, no pair is classified either
IngestDetect(c, ok, raw) ==
  LET call == ingestion[c]
      res == detect_relationships_batch(call.paper, IngestNewPaperDate,
               get_all_papers(papers), papers, raw, min_confidence, NoBatch)
      rels == IF res.status = "raise" THEN <<>> ELSE res.rels
  IN  /\ call.pc = "detect"
      /\ ingestion' = [ingestion EXCEPT ![c] =
           IF ~ok \/ rels = <<>> THEN NoIngestion
           ELSE [call EXCEPT !.pc = "store", !.existing_papers = papers,
                             !.relationships = rels, !.pending = rels]]
      /\ lastOp' = IF ~ok
                   THEN [Op("ingest", call.paper, <<>>, FALSE)
                           EXCEPT !.step = "read"]
                   ELSE [Op("ingest", call.paper, res.calls, FALSE)
                           EXCEPT !.step = "detect",
                                  !.accepted = EdgesOf(rels),
                                  !.completed =
                                    res.status = "ok" /\ rels = <<>>,
                                  !.seen = papers]
      /\ UNCHANGED <<papers, store, clock, run, limiter, pool, added>>

\* one pass of 'for rel in relationships: store_relationship(rel)'
\* (208-210); an exception of the write is caught at 221 and ends the loop
IngestStore(c, ok) ==
  LET call == ingestion[c]
      rel == Head(call.pending)
      out == store_relationship(store, rel, clock)
      last == Tail(call.pending) = <<>>
  IN  /\ call.pc = "store"
      /\ ok => Cardinality(out) <= MaxRels
      /\ store' = IF ok THEN out ELSE store
      /\ ingestion' = [ingestion EXCEPT ![c] =
           IF ~ok \/ last THEN NoIngestion
           ELSE [call EXCEPT !.pending = Tail(@)]]
      /\ lastOp' = [Op("ingest", call.paper, <<>>,
                       ok /\ Replaces(store, <<rel>>))
                      EXCEPT !.step = "store",
                             !.accepted = EdgesOf(<<rel>>),
                             !.failed = IF ok THEN {} ELSE EdgesOf(<<rel>>),
                             !.completed =
                               /\ ok /\ last
                               /\ EdgesOf(call.relationships)
                                    \subseteq Edges(out),
                             !.seen = call.existing_papers]
      /\ UNCHANGED <<papers, clock, run, limiter, pool, added>>

\* the calls cs of ingest_paper for the papers ids, the classifier
\* answering as in outcomes, the reads and writes of the store
\* succeeding or not as in oks
Ingest(cs, ids, outcomes, oks) ==
  \/ \E c \in cs, p \in ids, enable_relationships \in BOOLEAN :
       \E meta \in IF papers[p].present THEN {papers[p]} ELSE Profiles :
         IngestBegin(c, p, meta, enable_relationships)
  \/ \E c \in cs, ok \in oks : IngestIndex(c, ok)
  \/ \E c \in cs, ok \in oks :
       /\ ingestion[c].pc = "detect"
       /\ \E raw \in [Present(papers) \ {ingestion[c].paper} -> outcomes] :
            IngestDetect(c, ok, raw)
  \/ \E c \in cs, ok \in oks : IngestStore(c, ok)

(***************************************************************************)
(* One call of detect_relationships_batch or of                            *)
(* detect_relationships_batch_filtered for a stored paper against the      *)
(* corpus.  The methods return their list and write nothing; no code of    *)
(* the repository calls the filtered one.                                  *)
(***************************************************************************)
SimScores == {NoEmbedding, 50, 70}

\* similarities to the new paper, in percent
WideSimScores == {NoEmbedding, 50, 70, 90}

TopKs == {1, 2}

\* min_similarity: float = 0.6
default_min_similarity == 60

\* the classifier returns a result
Answering ==
  {Outcome(Json("supports", 65)), Outcome(Json("contradicts", 65)),
   Outcome(Json("none", 75))}

\* the answers of the classifier next to an ingestion: a contradiction
\* between the scalar bar and the selective one, one above both, no
\* relationship
DetectOutcomes ==
  {Outcome(Json("contradicts", 65)), Outcome(Json("contradicts", 75)),
   Outcome(Json("none", 75))}

\* one answer for every call
Supporting == {Outcome(Json("supports", 65))}

BatchCall(new, raw) ==
  LET res == detect_relationships_batch(new, get_paper_date(papers[new]),
               get_all_papers(papers), papers, raw, min_confidence, NoBatch)
  IN  /\ lastOp' = [Op(IF res.status = "raise" THEN "batch_raised"
                       ELSE "batch", new, res.calls, FALSE)
                      EXCEPT !.accepted = EdgesOf(res.rels)]
      /\ UNCHANGED <<papers, store, clock, run, limiter, pool, ingestion,
                     added>>

Batch ==
  \E new \in Present(papers) :
    \E raw \in [Present(papers) \ {new} -> Answering] : BatchCall(new, raw)

FilteredCall(new, sim, top_k, raw) ==
  LET res == detect_relationships_batch_filtered(
               new, get_paper_date(papers[new]), get_all_papers(papers),
               papers, sim, top_k, default_min_similarity, raw)
  IN  /\ papers[new].present
      /\ lastOp' = [Op(IF res.status = "raise" THEN "filtered_raised"
                       ELSE "filtered", new, res.calls, FALSE)
                      EXCEPT !.accepted = EdgesOf(res.rels),
                             !.returned = IF res.status = "raise" THEN <<>>
                                          ELSE res.rels,
                             !.filter = [sim |-> sim, top_k |-> top_k,
                                         min_similarity |->
                                           default_min_similarity]]
      /\ UNCHANGED <<papers, store, clock, run, limiter, pool, ingestion,
                     added>>

\* the similarity of the new paper to itself stands for its embedding
\* being in the cache; without it no other embedding is looked at
BatchFiltered ==
  \E new \in Present(papers) :
    \E sim \in {f \in [Present(papers) -> WideSimScores] :
                  \/ f[new] = 90
                  \/ /\ f[new] = NoEmbedding
                     /\ \A q \in Present(papers) \ {new} : f[q] = 70},
       top_k \in TopKs :
      \E raw \in [{q \in Present(papers) \ {new} :
                     /\ sim[new] # NoEmbedding /\ sim[q] # NoEmbedding
                     /\ sim[q] >= default_min_similarity}
                  -> Supporting] :
        FilteredCall(new, sim, top_k, raw)

\* the filtered call next to the ingestions and the scripts
Filtered(outcomes) ==
  \E p \in Present(papers) :
    \E top_k \in {k \in TopKs : k = 1 \/ k < Cardinality(Present(papers))},
       sim \in {f \in [Present(papers) -> SimScores] : f[p] # 50} :
      \E raw \in [{q \in Present(papers) \ {p} :
                     sim[q] >= default_min_similarity} -> outcomes] :
        FilteredCall(p, sim, top_k, raw)

(***************************************************************************)
(* The steps the scripts share: a script deletes the documents it has      *)
(* listed one delete() at a time and stores what it has found for a paper  *)
(* one store_relationship at a time.                                       *)
(***************************************************************************)
SweepKinds == {"sweep_seq", "sweep_par"}

\* the scripts that run the loop of the full sweep
LoopKinds == SweepKinds \cup {"populate"}

\* the scripts that call delete(), add() and store_relationship outside
\* any try
Unguarded == {"opt56", "fix", "restore", "merge", "seed", "add"}

\* the scripts that store one list of relationships and end
ListKinds == {"fix", "restore", "merge", "seed"}

\* the script moves on from the paper it has dealt with; the sweeps stop
\* before the last paper, which has no older one ('continue'), and
\* regenerate_options_5_6_only.py:163 divides by max_possible_comparisons,
\* which is 0 for fewer than two papers
NextPaper(r) ==
  LET n == Len(r.order)
      last == IF r.kind = "opt56" THEN n ELSE n - 1
  IN  IF r.kind \in ListKinds THEN End(r, "done")
      ELSE IF r.i >= last
      THEN End(r, IF r.kind = "opt56" /\ n < 2 THEN "crashed" ELSE "done")
      ELSE [r EXCEPT !.i = @ + 1, !.pc = "classify"]

\* what follows the deletion loop
AfterDelete(r) ==
  IF r.listed # <<>> THEN [r EXCEPT !.pc = "delete"]
  ELSE IF r.kind \in {"cleanup", "reverse", "delete_all"} THEN End(r, "done")
  ELSE IF r.kind \in ListKinds
  THEN (IF r.pending = <<>> THEN End(r, "done") ELSE [r EXCEPT !.pc = "store"])
  ELSE NextPaper([r EXCEPT !.i = 0])

\* one pass of a deletion loop: document(id).delete() of a listed id; ok
\* FALSE: the call raises, which the sweeps and the auditors log before
\* they go on, which ends the unguarded scripts, and which
\* delete_all_papers logs (63-64) outside its loop, so that it deletes no
\* more
DeleteListed(s, ok) ==
  LET r == run[s]
      rest == [r EXCEPT !.listed = Tail(@),
                        !.failed = IF ok THEN @ ELSE @ \cup {"delete"}]
  IN  /\ r.status = "running" /\ r.pc = "delete"
      /\ store' = IF ok THEN delete(store, Head(r.listed)) ELSE store
      /\ run' = [run EXCEPT ![s] =
           IF ~ok /\ r.kind \in Unguarded THEN End(rest, "crashed")
           ELSE IF ~ok /\ r.kind = "delete_all" THEN End(rest, "done")
           ELSE AfterDelete(rest)]
      /\ lastOp' = [Op(r.kind, "", <<>>, FALSE) EXCEPT !.step = "delete"]
      /\ UNCHANGED <<papers, clock, limiter, pool, ingestion, added>>

\* the records the collection has room for: MaxRels, and the whole list of
\* a script that stores the demo relationships
Room(r) ==
  IF r.kind \in {"fix", "seed"} THEN Max(MaxRels, Cardinality(r.found))
  ELSE MaxRels

\* one pass of 'for rel in relationships: store_relationship(rel)'; ok
\* FALSE: the call raises, which the sweeps log ("Error storing
\* relationship") before they go on
StorePending(s, ok) ==
  LET r == run[s]
      rel == Head(r.pending)
      out == store_relationship(store, rel, clock)
      rest == [r EXCEPT !.pending = Tail(@),
                        !.failed = IF ok THEN @ ELSE @ \cup {"store"}]
  IN  /\ r.status = "running" /\ r.pc = "store"
      /\ ok => Cardinality(out) <= Room(r)
      /\ store' = IF ok THEN out ELSE store
      /\ run' = [run EXCEPT ![s] =
           IF ~ok /\ r.kind \in Unguarded THEN End(rest, "crashed")
           ELSE IF rest.pending # <<>> THEN rest
           ELSE NextPaper(rest)]
      /\ lastOp' = [Op(r.kind, rel.source_paper_id, <<>>,
                       ok /\ Replaces(store, <<rel>>))
                      EXCEPT !.step = "store",
                             !.accepted = EdgesOf(<<rel>>),
                             !.failed = IF ok THEN {} ELSE EdgesOf(<<rel>>)]
      /\ UNCHANGED <<papers, clock, limiter, pool, ingestion, added>>

\* the process is stopped
Interrupt(s) ==
  /\ run[s].status = "running"
  /\ run' = [run EXCEPT ![s] = End(@, "interrupted")]
  /\ lastOp' = [Op(run[s].kind, "", <<>>, FALSE) EXCEPT !.step = "stopped"]
  /\ UNCHANGED <<papers, store, clock, limiter, pool, ingestion, added>>

(***************************************************************************)
(* regenerate_all, regenerate_all_parallel and populate_relationships.     *)
(***************************************************************************)
\* the papers are fetched and sorted (57-67, 150-161); populate_relationships
\* (61-74) sorts before it counts, and a list of fewer than two papers
\* sorts without a comparison that could raise
SweepStart(s, kind) ==
  LET all == get_all_papers(papers) IN
  /\ run[s].status # "running"
  /\ run' = [run EXCEPT ![s] =
       IF Len(all) < 2 THEN End(Begun(kind), "done")
       ELSE IF SortRaises(all, papers) THEN End(Begun(kind), "crashed")
       ELSE [Begun(kind) EXCEPT
               !.pc = IF kind = "populate" THEN "classify" ELSE "list",
               !.corpus = papers,
               !.order = SortNewestFirst(all, papers),
               !.i = 1]]
  /\ lastOp' = [Op(kind, "", <<>>, FALSE) EXCEPT !.step = "papers"]
  /\ UNCHANGED <<papers, store, clock, limiter, pool, ingestion, added>>

\* the relationships are listed (78, 171) and, if there are any, the
\* operator is asked (83-91, 176-184); populate_relationships lists them
\* (77) only to print their number
SweepList(s, answer, stream) ==
  LET r == run[s] IN
  /\ r.status = "running" /\ r.pc = "list" /\ r.kind \in SweepKinds
  /\ run' = [run EXCEPT ![s] =
       IF stream = <<>> THEN [r EXCEPT !.pc = "classify"]
       ELSE IF answer = "no" THEN End([r EXCEPT !.answer = answer],
                                      "cancelled")
       ELSE [r EXCEPT !.pc = "delete",
                      !.listed = [k \in 1..Len(stream) |-> stream[k].id]]]
  /\ lastOp' = [Op(r.kind, "", <<>>, FALSE)
                  EXCEPT !.step = "list",
                         !.answer = IF stream = <<>> THEN "" ELSE answer]
  /\ UNCHANGED <<papers, store, clock, limiter, pool, ingestion, added>>

\* one iteration of the loop over papers_sorted up to the first write
\* (125-155, 218-250): the paper is classified against the older ones; an
\* exception that leaves detect_relationships_batch is logged and the
\* loop goes on with nothing found for the paper
SweepPaper(s, raw, sched) ==
  LET r == run[s]
      new == r.order[r.i]
      older == SubSeq(r.order, r.i + 1, Len(r.order))
      seq == detect_relationships_batch(new, get_paper_date(r.corpus[new]),
               older, r.corpus, raw, min_confidence, NoBatch)
      res == IF r.kind = "sweep_par"
             THEN process_paper_batch(new, older, sched, raw,
                                      min_confidence, NoBatch)
             ELSE seq
      rels == IF res.status = "raise" THEN <<>> ELSE res.rels
      classified == [r EXCEPT !.calls = @ \o res.calls,
                              !.pending = rels,
                              !.found = EdgesOf(res.rels)]
  IN  /\ r.status = "running" /\ r.pc = "classify" /\ r.kind \in LoopKinds
      /\ run' = [run EXCEPT ![s] =
           IF rels = <<>> THEN NextPaper(classified)
           ELSE [classified EXCEPT !.pc = "store"]]
      /\ lastOp' = [Op(r.kind, new, res.calls, FALSE)
                      EXCEPT !.step = "classify",
                             !.accepted = EdgesOf(res.rels),
                             !.twin = IF r.kind = "sweep_par" THEN seq
                                      ELSE NoBatch]
      /\ UNCHANGED <<papers, store, clock, limiter, pool, ingestion, added>>

\* the processes ss running the scripts kinds, the classifier answering
\* as in outcomes and the writes succeeding or not as in oks
Sweep(ss, kinds, outcomes, oks) ==
  \/ \E s \in ss, kind \in kinds : SweepStart(s, kind)
  \/ \E s \in ss :
       /\ run[s].pc = "list"
       /\ \E answer \in IF store = {} THEN {"notty"} ELSE Answers,
             stream \in Streams(store) : SweepList(s, answer, stream)
  \/ \E s \in ss, ok \in oks : run[s].kind \in LoopKinds /\ DeleteListed(s, ok)
  \/ \E s \in ss :
       /\ run[s].pc = "classify" /\ run[s].kind \in LoopKinds
       /\ LET older == SubSeq(run[s].order, run[s].i + 1, Len(run[s].order))
          IN  \E raw \in [SeqRange(older) -> outcomes] :
                \E sched \in IF run[s].kind = "sweep_par"
                             THEN Schedules(older) ELSE {<<>>} :
                  SweepPaper(s, raw, sched)
  \/ \E s \in ss, ok \in oks : run[s].kind \in LoopKinds /\ StorePending(s, ok)

(***************************************************************************)
(* regenerate_lost_relationships.regenerate_bidirectional.                 *)
(***************************************************************************)
\* the papers are fetched (54-60)
LostStart(s) ==
  LET all == get_all_papers(papers) IN
  /\ run[s].status # "running"
  /\ run' = [run EXCEPT ![s] =
       IF Len(all) < 2 THEN End(Begun("lost"), "done")
       ELSE [Begun("lost") EXCEPT !.pc = "list", !.corpus = papers,
                                  !.order = all]]
  /\ lastOp' = [Op("lost", "", <<>>, FALSE) EXCEPT !.step = "papers"]
  /\ UNCHANGED <<papers, store, clock, limiter, pool, ingestion, added>>

\* the relationships are read and existing_pairs is built (63-74)
LostList(s) ==
  LET r == run[s] IN
  /\ r.status = "running" /\ r.pc = "list" /\ r.kind = "lost"
  /\ run' = [run EXCEPT ![s] =
       [r EXCEPT !.pc = "classify", !.i = 1, !.j = 1,
                 !.existing_pairs = ExistingPairs(store)]]
  /\ lastOp' = [Op("lost", "", <<>>, FALSE) EXCEPT !.step = "list"]
  /\ UNCHANGED <<papers, store, clock, limiter, pool, ingestion, added>>

\* one pass of the loop over paper_b (110-157): the pair is skipped, or
\* classified and its edge stored at once; the comparison of the dates is
\* outside the try, an exception of the classifier or of the write is
\* logged and the loop goes on
LostPair(s, out, ok) ==
  LET r == run[s]
      n == Len(r.order)
      a == r.order[r.i]
      b == r.order[r.j]
      chk == TemporalCheck(get_paper_date(r.corpus[a]),
                           get_paper_date(r.corpus[b]))
      skipped == a = b \/ <<a, b>> \in r.existing_pairs
      called == ~skipped /\ chk = "classify"
      rel == RelData(a, b, out.res.relationship_type, out.res.confidence)
      writes == called /\ ~out.raises /\ BatchAccepts(out.res, 60)
      stored == store_relationship(store, rel, clock)
      cs == IF called THEN <<<<a, b>>>> ELSE <<>>
      moved == [r EXCEPT !.calls = @ \o cs,
                         !.failed = IF writes /\ ~ok THEN @ \cup {"store"}
                                    ELSE @]
  IN  /\ r.status = "running" /\ r.pc = "classify" /\ r.kind = "lost"
      /\ (writes /\ ok) => Cardinality(stored) <= MaxRels
      /\ store' = IF writes /\ ok THEN stored ELSE store
      /\ run' = [run EXCEPT ![s] =
           IF ~skipped /\ chk = "raise" THEN End(r, "crashed")
           ELSE IF r.j < n THEN [moved EXCEPT !.j = @ + 1]
           ELSE IF r.i < n THEN [moved EXCEPT !.i = @ + 1, !.j = 1]
           ELSE End(moved, "done")]
      /\ lastOp' = [Op("lost", a, cs,
                       writes /\ ok /\ Replaces(store, <<rel>>))
                      EXCEPT !.step = "pair",
                             !.accepted = IF writes THEN EdgesOf(<<rel>>)
                                          ELSE {},
                             !.failed = IF writes /\ ~ok
                                        THEN EdgesOf(<<rel>>) ELSE {}]
      /\ UNCHANGED <<papers, clock, limiter, pool, ingestion, added>>

Lost(ss, outcomes, oks) ==
  \/ \E s \in ss : LostStart(s)
  \/ \E s \in ss : LostList(s)
  \/ \E s \in ss, out \in outcomes, ok \in oks : LostPair(s, out, ok)

(***************************************************************************)
(* regenerate_options_5_6_only.main.                                       *)
(***************************************************************************)
\* the papers are fetched and sorted by 'published' (65-69)
Opt56Start(s) ==
  /\ run[s].status # "running"
  /\ run' = [run EXCEPT ![s] =
       [Begun("opt56") EXCEPT
          !.pc = "list", !.corpus = papers,
          !.order = SortByPublished(get_all_papers(papers), papers)]]
  /\ lastOp' = [Op("opt56", "", <<>>, FALSE) EXCEPT !.step = "papers"]
  /\ UNCHANGED <<papers, store, clock, limiter, pool, ingestion, added>>

\* relationships_ref.stream() (75): the documents to delete
Opt56List(s, stream) ==
  LET r == run[s] IN
  /\ r.status = "running" /\ r.pc = "list" /\ r.kind = "opt56"
  /\ run' = [run EXCEPT ![s] =
       AfterDelete([r EXCEPT
                      !.listed = [k \in 1..Len(stream) |-> stream[k].id]])]
  /\ lastOp' = [Op("opt56", "", <<>>, FALSE) EXCEPT !.step = "list"]
  /\ UNCHANGED <<papers, store, clock, limiter, pool, ingestion, added>>

\* one iteration of the loop over all_papers up to the first write
\* (99-141); an exception ends the script
Opt56Paper(s, raw) ==
  LET r == run[s]
      a == r.order[r.i]
      res == Opt56Inner(a, r.order, r.corpus, raw, NoBatch)
      classified == [r EXCEPT !.calls = @ \o res.calls,
                              !.pending = res.rels,
                              !.found = EdgesOf(res.rels)]
  IN  /\ r.status = "running" /\ r.pc = "classify" /\ r.kind = "opt56"
      /\ run' = [run EXCEPT ![s] =
           IF res.status = "raise"
           THEN End([classified EXCEPT !.pending = <<>>], "crashed")
           ELSE IF res.rels = <<>> THEN NextPaper(classified)
           ELSE [classified EXCEPT !.pc = "store"]]
      /\ lastOp' = [Op("opt56", a, res.calls, FALSE)
                      EXCEPT !.step = "classify",
                             !.accepted = EdgesOf(res.rels)]
      /\ UNCHANGED <<papers, store, clock, limiter, pool, ingestion, added>>

Opt56(ss, outcomes, oks) ==
  \/ \E s \in ss : Opt56Start(s)
  \/ \E s \in ss :
       /\ run[s].pc = "list"
       /\ \E stream \in Streams(store) : Opt56List(s, stream)
  \/ \E s \in ss, ok \in oks : run[s].kind = "opt56" /\ DeleteListed(s, ok)
  \/ \E s \in ss :
       /\ run[s].pc = "classify" /\ run[s].kind = "opt56"
       /\ \E raw \in [SeqRange(run[s].order) \ {run[s].order[run[s].i]}
                        -> outcomes] : Opt56Paper(s, raw)
  \/ \E s \in ss, ok \in oks : run[s].kind = "opt56" /\ StorePending(s, ok)

\* an ingestion next to a script: every writer of the relationships
\* collection that goes through store_relationship
SpecDetect == InitDetect
  /\ [][\/ Ingest({"c1"}, IngestIds, DetectOutcomes, BOOLEAN)
        \/ Sweep({"s1"}, LoopKinds, DetectOutcomes, {TRUE})
        \/ Lost({"s1"}, DetectOutcomes, {TRUE})
        \/ Opt56({"s1"}, DetectOutcomes, {TRUE})]_vars

\* every detection path, the filtered call included
SpecPaths == InitDetect
  /\ [][\/ Ingest({"c1"}, {"p2"}, Supporting, BOOLEAN)
        \/ Filtered(Supporting)
        \/ Sweep({"s1"}, LoopKinds, Supporting, {TRUE})
        \/ Lost({"s1"}, Supporting, {TRUE})
        \/ Opt56({"s1"}, Supporting, {TRUE})]_vars

\* the scalar mode and the selective mode with every answer
SpecThreshold == InitDetect
  /\ [][\/ Filtered(Outcomes)
        \/ Sweep({"s1"}, SweepKinds, Outcomes, {TRUE})
        \/ Opt56({"s1"}, Outcomes, {TRUE})]_vars

\* the all-vs-all regeneration scripts alone
SpecRegen == InitDetect
  /\ [][Lost({"s1"}, Outcomes, {TRUE}) \/ Opt56({"s1"}, Outcomes, {TRUE})]_vars

(***************************************************************************)
(* A full sweep over a corpus of three papers.                             *)
(***************************************************************************)
SweepProfiles ==
  {Paper("2019-06-01T00:00:00+00:00", ""),
   Paper("2021-06-01T00:00:00Z", ""),
   Paper("2020", ""),
   Paper("", "")}

InitSweep ==
  /\ papers \in [PaperIds -> SweepProfiles]
  /\ store = {}
  /\ Quiet

SpecSweep == InitSweep /\ [][Sweep({"s1"}, SweepKinds, Outcomes, {TRUE})]_vars

\* the sweep with a relationship store that can become unreachable
SpecOutage == InitSweep
  /\ [][Sweep({"s1"}, SweepKinds, Answering, BOOLEAN)]_vars

\* the parallel sweep with a classifier that answers every call: no
\* future raises or times out
SpecTwin == InitSweep
  /\ [][Sweep({"s1"}, {"sweep_par"}, Answering, {TRUE})]_vars

SpecBatch == InitSweep /\ [][Batch]_vars

SpecFiltered == InitSweep /\ [][BatchFiltered]_vars

(***************************************************************************)
(* delete_all_papers.main: every paper, then every relationship.           *)
(***************************************************************************)
\* the papers are listed (23-30); with none the script returns
DeleteAllStart(s) ==
  /\ run[s].status # "running"
  /\ run' = [run EXCEPT ![s] =
       IF Present(papers) = {} THEN End(Begun("delete_all"), "done")
       ELSE [Begun("delete_all") EXCEPT
               !.pc = "papers", !.order = get_all_papers(papers)]]
  /\ lastOp' = [Op("delete_all", "", <<>>, FALSE) EXCEPT !.step = "papers"]
  /\ UNCHANGED <<papers, store, clock, limiter, pool, ingestion, added>>

\* one pass of the loop at 45-54: doc.reference.delete() of a listed
\* paper; an exception is logged and the loop goes on
DeleteAllPaper(s, ok) ==
  LET r == run[s]
      paper_id == Head(r.order)
      rest == [r EXCEPT !.order = Tail(@),
                        !.failed = IF ok THEN @ ELSE @ \cup {"delete_paper"}]
  IN  /\ r.status = "running" /\ r.kind = "delete_all" /\ r.pc = "papers"
      /\ papers' = IF ok THEN delete_paper(papers, paper_id) ELSE papers
      /\ run' = [run EXCEPT ![s] =
           IF rest.order = <<>> THEN [rest EXCEPT !.pc = "list"] ELSE rest]
      /\ lastOp' = [Op("delete_all", paper_id, <<>>, FALSE)
                      EXCEPT !.step = "delete_paper"]
      /\ UNCHANGED <<store, clock, limiter, pool, ingestion, added>>

\* the relationships are listed (59); an exception is logged (63-64) and
\* none is deleted
DeleteAllList(s, ok, stream) ==
  LET r == run[s]
  IN  /\ r.status = "running" /\ r.kind = "delete_all" /\ r.pc = "list"
      /\ run' = [run EXCEPT ![s] =
           IF ~ok THEN End([r EXCEPT !.failed = @ \cup {"list"}], "done")
           ELSE AfterDelete([r EXCEPT
                               !.listed = [k \in 1..Len(stream) |->
                                             stream[k].id]])]
      /\ lastOp' = [Op("delete_all", "", <<>>, FALSE) EXCEPT !.step = "list"]
      /\ UNCHANGED <<papers, store, clock, limiter, pool, ingestion, added>>

DeleteAllPapers(ss, oks) ==
  \/ \E s \in ss : DeleteAllStart(s)
  \/ \E s \in ss, ok \in oks : DeleteAllPaper(s, ok)
  \/ \E s \in ss, ok \in oks :
       /\ run[s].pc = "list"
       /\ \E stream \in Streams(store) : DeleteAllList(s, ok, stream)
  \/ \E s \in ss, ok \in oks :
       run[s].kind = "delete_all" /\ DeleteListed(s, ok)

SpecCorpus == InitDetect
  /\ [][\/ Ingest({"c1"}, IngestIds, Supporting, BOOLEAN)
        \/ DeletePaper
        \/ CleanupDemoPapers
        \/ StorePaper
        \/ UpdatePaper
        \/ DeleteAllPapers({"s1"}, {TRUE})]_vars

(***************************************************************************)
(* Ingestion at different times: the server's clock advances between the   *)
(* steps, and every write is stamped with it.                              *)
(***************************************************************************)
MaxClock == 1

Later ==
  /\ clock < MaxClock
  /\ clock' = clock + 1
  /\ lastOp' = Op("later", "", <<>>, FALSE)
  /\ UNCHANGED <<papers, store, run, limiter, pool, ingestion, added>>

\* a corpus of two dated papers
InitRestore ==
  /\ papers = [p \in PaperIds |->
                 IF p = "p1" THEN Paper("2019-06-01T00:00:00+00:00", "")
                 ELSE IF p = "p3" THEN Paper("2021-06-01T00:00:00Z", "")
                 ELSE NoPaper]
  /\ store = {}
  /\ Quiet

\* two callers of ingest_paper for the same new paper
SpecRestore == InitRestore
  /\ [][Ingest(Calls, {"p2"}, Supporting, BOOLEAN) \/ Later]_vars

(***************************************************************************)
(* fix_relationships: the hand-written relationships of the demo papers.   *)
(***************************************************************************)
DemoRoles == {"transformer", "bert", "gpt3"}

\* the default limit of FirestoreClient.get_all_relationships
default_limit == 100

\* the paper_map built by the title search (lines 19-30): the role found
\* for some of the stored papers
PaperMaps(ps) ==
  {f \in [DemoRoles -> Present(ps) \cup {""}] :
     \A a, b \in DemoRoles : (a # b /\ f[a] # "") => f[a] # f[b]}

\* a dict of the list at lines 49-77: no 'evidence' key
DemoRel(s, t, ty, c) == [RelData(s, t, ty, c) EXCEPT !.evidence = ""]

DemoRelationships(paper_map) ==
  <<DemoRel(paper_map["bert"], paper_map["transformer"], "builds_on", 95),
    DemoRel(paper_map["gpt3"], paper_map["transformer"], "builds_on", 92),
    DemoRel(paper_map["gpt3"], paper_map["bert"], "extends", 88)>>

\* the papers are fetched and the three demo papers looked up (16-35)
FixStart(s, paper_map) ==
  /\ run[s].status # "running"
  /\ run' = [run EXCEPT ![s] =
       IF \E role \in DemoRoles : paper_map[role] = ""
       THEN End(Begun("fix"), "done")
       ELSE [Begun("fix") EXCEPT
               !.pc = "list", !.pending = DemoRelationships(paper_map),
               !.found = EdgesOf(DemoRelationships(paper_map))]]
  /\ lastOp' = [Op("fix", "", <<>>, FALSE) EXCEPT !.step = "papers"]
  /\ UNCHANGED <<papers, store, clock, limiter, pool, ingestion, added>>

\* old_rels = get_all_relationships() (38)
FixList(s, stream) ==
  LET r == run[s]
      old_rels == get_all_relationships(stream, default_limit)
  IN  /\ r.status = "running" /\ r.pc = "list" /\ r.kind = "fix"
      /\ run' = [run EXCEPT ![s] =
           AfterDelete([r EXCEPT
                          !.listed = [k \in 1..Len(old_rels) |->
                                        old_rels[k].id]])]
      /\ lastOp' = [Op("fix", "", <<>>, FALSE) EXCEPT !.step = "list"]
      /\ UNCHANGED <<papers, store, clock, limiter, pool, ingestion, added>>

FixRelationships(ss, oks) ==
  \/ \E s \in ss, paper_map \in PaperMaps(papers) : FixStart(s, paper_map)
  \/ \E s \in ss :
       /\ run[s].pc = "list"
       /\ \E stream \in Streams(store) : FixList(s, stream)
  \/ \E s \in ss, ok \in oks : run[s].kind = "fix" /\ DeleteListed(s, ok)
  \/ \E s \in ss, ok \in oks : run[s].kind = "fix" /\ StorePending(s, ok)

(***************************************************************************)
(* restore_relationships.main and merge_unique_relationships.main: the     *)
(* records of a backup file are stored again.                              *)
(***************************************************************************)
\* records that backup_relationships.py copied from the collection at some
\* earlier time: an edge from an older to a newer paper, taken before a
\* repair, and an edge of low confidence
BackupRels ==
  {RelData("p1", "p2", "contradicts", 75), RelData("p2", "p1", "supports", 30)}

\* the list of a backup file
Backups ==
  {<<>>} \cup {<<a>> : a \in BackupRels}
    \cup {pr \in BackupRels \X BackupRels : pr[1] # pr[2]}

\* the backup file is loaded (20-30); without the file the script exits
RestoreStart(s, exists, backup) ==
  /\ run[s].status # "running"
  /\ run' = [run EXCEPT ![s] =
       IF ~exists THEN End(Begun("restore"), "crashed")
       ELSE [Begun("restore") EXCEPT !.pc = "list", !.pending = backup]]
  /\ lastOp' = [Op("restore", "", <<>>, FALSE) EXCEPT !.step = "load"]
  /\ UNCHANGED <<papers, store, clock, limiter, pool, ingestion, added>>

\* the collection is streamed for deletion (34-38)
RestoreList(s, stream) ==
  LET r == run[s]
  IN  /\ r.status = "running" /\ r.kind = "restore" /\ r.pc = "list"
      /\ run' = [run EXCEPT ![s] =
           AfterDelete([r EXCEPT
                          !.listed = [k \in 1..Len(stream) |->
                                        stream[k].id]])]
      /\ lastOp' = [Op("restore", "", <<>>, FALSE) EXCEPT !.step = "list"]
      /\ UNCHANGED <<papers, store, clock, limiter, pool, ingestion, added>>

RestoreRelationships(ss, oks) ==
  \/ \E s \in ss, exists \in BOOLEAN, backup \in Backups :
       RestoreStart(s, exists, backup)
  \/ \E s \in ss :
       /\ run[s].pc = "list"
       /\ \E stream \in Streams(store) : RestoreList(s, stream)
  \/ \E s \in ss, ok \in oks : run[s].kind = "restore" /\ DeleteListed(s, ok)
  \/ \E s \in ss, ok \in oks : run[s].kind = "restore" /\ StorePending(s, ok)

\* the backup file is loaded (35-41); open() raises without the file
MergeStart(s, exists, backup) ==
  /\ run[s].status # "running"
  /\ run' = [run EXCEPT ![s] =
       IF ~exists THEN End(Begun("merge"), "crashed")
       ELSE [Begun("merge") EXCEPT !.pc = "list", !.pending = backup]]
  /\ lastOp' = [Op("merge", "", <<>>, FALSE) EXCEPT !.step = "load"]
  /\ UNCHANGED <<papers, store, clock, limiter, pool, ingestion, added>>

\* the collection is streamed and the records of the backup whose
\* (source, target, type) it does not hold are kept for storing (45-65)
MergeList(s, stream) ==
  LET r == run[s]
      current_keys == Edges(SeqRange(stream))
      unique_rels == SelectSeq(r.pending,
                       LAMBDA rel : <<rel.source_paper_id, rel.target_paper_id,
                                      rel.relationship_type>> \notin current_keys)
  IN  /\ r.status = "running" /\ r.kind = "merge" /\ r.pc = "list"
      /\ run' = [run EXCEPT ![s] = AfterDelete([r EXCEPT !.pending = unique_rels])]
      /\ lastOp' = [Op("merge", "", <<>>, FALSE) EXCEPT !.step = "list"]
      /\ UNCHANGED <<papers, store, clock, limiter, pool, ingestion, added>>

MergeUniqueRelationships(ss, oks) ==
  \/ \E s \in ss, exists \in BOOLEAN, backup \in Backups :
       MergeStart(s, exists, backup)
  \/ \E s \in ss :
       /\ run[s].pc = "list"
       /\ \E stream \in Streams(store) : MergeList(s, stream)
  \/ \E s \in ss, ok \in oks : run[s].kind = "merge" /\ StorePending(s, ok)

(***************************************************************************)
(* seed_demo_data: five papers and three relationships written by hand.    *)
(***************************************************************************)
\* the list at 80-108: the endpoints are the 'paper_id' keys of the paper
\* dicts, which store_paper does not use for the document id
SeedRelationships ==
  <<DemoRel("2312.00002", "2312.00001", "builds_on", 95),
    DemoRel("2312.00003", "2312.00001", "builds_on", 92),
    DemoRel("2312.00003", "2312.00002", "extends", 88)>>

\* the script starts; paper_map: the document ids that generate_paper_id
\* gives its first three papers, the same papers fix_relationships looks
\* up; its last two papers are not among PaperIds
SeedStart(s, paper_map) ==
  /\ run[s].status # "running"
  /\ run' = [run EXCEPT ![s] =
       [Begun("seed") EXCEPT
          !.pc = "papers",
          !.order = <<paper_map["transformer"], paper_map["bert"],
                      paper_map["gpt3"], "", "">>,
          !.pending = SeedRelationships,
          !.found = EdgesOf(SeedRelationships)]]
  /\ lastOp' = [Op("seed", "", <<>>, FALSE) EXCEPT !.step = "start"]
  /\ UNCHANGED <<papers, store, clock, limiter, pool, ingestion, added>>

\* one pass of the loop at 112-114: store_paper of a dict without
\* 'published' and 'updated'
SeedPaper(s, ok) ==
  LET r == run[s]
      paper_id == Head(r.order)
      rest == [r EXCEPT !.order = Tail(@)]
  IN  /\ r.status = "running" /\ r.kind = "seed" /\ r.pc = "papers"
      /\ papers' = IF ok /\ paper_id \in PaperIds
                   THEN store_paper(papers, paper_id, Paper("", ""))
                   ELSE papers
      /\ run' = [run EXCEPT ![s] =
           IF ~ok THEN End([rest EXCEPT !.failed = @ \cup {"store_paper"}],
                           "crashed")
           ELSE IF rest.order = <<>> THEN [rest EXCEPT !.pc = "store"]
           ELSE rest]
      /\ lastOp' = [Op("seed", paper_id, <<>>, FALSE)
                      EXCEPT !.step = "store_paper"]
      /\ UNCHANGED <<store, clock, limiter, pool, ingestion, added>>

SeedDemoData(ss, oks) ==
  \/ \E s \in ss :
       \E paper_map \in {f \in [DemoRoles -> PaperIds] :
                            \A a, b \in DemoRoles : a # b => f[a] # f[b]} :
         SeedStart(s, paper_map)
  \/ \E s \in ss, ok \in oks : SeedPaper(s, ok)
  \/ \E s \in ss, ok \in oks : run[s].kind = "seed" /\ StorePending(s, ok)

SpecDemo == InitSweep
  /\ [][\/ Sweep({"s1"}, SweepKinds, Outcomes, {TRUE})
        \/ FixRelationships({"s1"}, {TRUE})
        \/ RestoreRelationships({"s1"}, {TRUE})
        \/ MergeUniqueRelationships({"s1"}, {TRUE})
        \/ SeedDemoData({"s1"}, {TRUE})]_vars

(***************************************************************************)
(* cleanup_temporal_violations.main (delete strategy) and                  *)
(* reverse_temporal_violations.main (reverse strategy).                    *)
(***************************************************************************)
MaxLegacy == 3

LegacyTypes == {"contradicts", "extends"}

\* what earlier, unchecked detection runs have left in the collection:
\* edges between p1 and another paper, in either direction
LegacyDocs ==
  {Doc(Sha(e[1], e[2], ty), RelData(e[1], e[2], ty, 75), 0) :
     e \in {x \in PaperIds \X PaperIds : x[1] # x[2] /\ "p1" \in {x[1], x[2]}},
     ty \in LegacyTypes}

AuditProfiles ==
  /\ papers \in [PaperIds -> SweepProfiles \cup {NoPaper}]
  /\ papers["p1"] = Paper("2021-06-01T00:00:00Z", "")
  /\ papers["p2"].present
  /\ papers["p3"] \in {Paper("2019-06-01T00:00:00+00:00", ""), NoPaper}

InitAudit ==
  /\ AuditProfiles
  /\ store \in {st \in SUBSET LegacyDocs : Cardinality(st) <= MaxLegacy}
  /\ Quiet

\* the papers are fetched (141; reverse_temporal_violations.py:142)
AuditStart(s, kind) ==
  /\ run[s].status # "running"
  /\ run' = [run EXCEPT ![s] =
       [Begun(kind) EXCEPT
          !.pc = "list", !.corpus = papers,
          !.again = /\ run[s].kind = kind
                    /\ run[s].status \in {"done", "clean"}
                    /\ run[s].failed = {}]]
  /\ lastOp' = [Op(kind, "", <<>>, FALSE) EXCEPT !.step = "papers"]
  /\ UNCHANGED <<papers, store, clock, limiter, pool, ingestion, added>>

\* the relationships are fetched and audited, the operator is asked
\* (147-205)
CleanupList(s, answer, stream) ==
  LET r == run[s]
      relationships == get_all_relationships(stream, cleanup_limit)
      tv == find_temporal_violations(relationships, r.corpus, <<>>)
      temporal_violations == tv.violations
      bidirectional_ids ==
        find_bidirectional_contradictions(relationships, {}, <<>>)
      total_to_delete == Len(temporal_violations) + Len(bidirectional_ids)
      read == [r EXCEPT !.relationships = relationships]
  IN  /\ r.status = "running" /\ r.pc = "list" /\ r.kind = "cleanup"
      /\ UNCHANGED <<papers, store, clock, limiter, pool, ingestion, added>>
      /\ IF tv.status = "raise"
         THEN /\ lastOp' = [AuditOp("cleanup", Len(temporal_violations), 0)
                              EXCEPT !.step = "list"]
              /\ run' = [run EXCEPT ![s] = End(read, "crashed")]
         ELSE /\ lastOp' = [AuditOp("cleanup", Len(temporal_violations),
                                    Len(bidirectional_ids))
                              EXCEPT !.step = "list",
                                     !.answer = IF total_to_delete = 0
                                                THEN "" ELSE answer]
              /\ run' = [run EXCEPT ![s] =
                   IF total_to_delete = 0 THEN End(read, "clean")
                   ELSE IF ~Proceeds(answer)
                   THEN End([read EXCEPT !.answer = answer], "cancelled")
                   ELSE [read EXCEPT
                           !.answer = answer, !.pc = "delete",
                           !.listed =
                             [k \in 1..Len(temporal_violations) |->
                                temporal_violations[k].id]
                               \o bidirectional_ids]]

Cleanup(ss, oks) ==
  \/ \E s \in ss : AuditStart(s, "cleanup")
  \/ \E s \in ss :
       /\ run[s].pc = "list"
       /\ \E answer \in Answers, stream \in Streams(store) :
            CleanupList(s, answer, stream)
  \/ \E s \in ss, ok \in oks : run[s].kind = "cleanup" /\ DeleteListed(s, ok)

\* what follows a pass of the reversal loop
AfterReverse(r) ==
  IF r.violations # <<>> THEN [r EXCEPT !.pc = "reverse"]
  ELSE AfterDelete(r)

\* the relationships are fetched and audited, the operator is asked
\* (148-208)
ReverseList(s, answer, stream) ==
  LET r == run[s]
      tv == find_temporal_violations_to_reverse(stream, r.corpus, <<>>)
      violations_to_reverse == tv.violations
      bidirectional_ids ==
        reverse_find_bidirectional_contradictions(stream, {}, <<>>)
      total_operations == Len(violations_to_reverse) + Len(bidirectional_ids)
      read == [r EXCEPT !.relationships = stream]
  IN  /\ r.status = "running" /\ r.pc = "list" /\ r.kind = "reverse"
      /\ UNCHANGED <<papers, store, clock, limiter, pool, ingestion, added>>
      /\ IF tv.status = "raise"
         THEN /\ lastOp' = [AuditOp("reverse", Len(violations_to_reverse), 0)
                              EXCEPT !.step = "list"]
              /\ run' = [run EXCEPT ![s] = End(read, "crashed")]
         ELSE /\ lastOp' = [AuditOp("reverse", Len(violations_to_reverse),
                                    Len(bidirectional_ids))
                              EXCEPT !.step = "list",
                                     !.answer = IF total_operations = 0
                                                THEN "" ELSE answer]
              /\ run' = [run EXCEPT ![s] =
                   IF total_operations = 0 THEN End(read, "clean")
                   ELSE IF ~Proceeds(answer)
                   THEN End([read EXCEPT !.answer = answer], "cancelled")
                   ELSE AfterReverse(
                          [read EXCEPT
                             !.answer = answer,
                             !.violations = violations_to_reverse,
                             !.listed = bidirectional_ids])]

\* the first half of a pass of the reversal loop: document(id).delete()
\* (220); an exception is logged and the loop goes on with the next
\* violation
ReverseDelete(s, ok) ==
  LET r == run[s]
      v == Head(r.violations)
  IN  /\ r.status = "running" /\ r.pc = "reverse"
      /\ store' = IF ok THEN delete(store, v.id) ELSE store
      /\ run' = [run EXCEPT ![s] =
           IF ok THEN [r EXCEPT !.pc = "add"]
           ELSE AfterReverse([r EXCEPT !.violations = Tail(@),
                                       !.failed = @ \cup {"delete"}])]
      /\ lastOp' = [Op("reverse", "", <<>>, FALSE) EXCEPT !.step = "delete"]
      /\ UNCHANGED <<papers, clock, limiter, pool, ingestion, added>>

\* the second half: collection.add() of the swapped record (223-230)
\* under a new document id, never one that was handed out before; an
\* exception is logged and the loop goes on
ReverseAdd(s, ok) ==
  LET r == run[s]
      v == Head(r.violations)
  IN  /\ r.status = "running" /\ r.pc = "add"
      /\ store' = IF ok
                  THEN store \cup {Doc(AutoId(added + 1), Swapped(v),
                                       NoTimestamp)}
                  ELSE store
      /\ added' = IF ok THEN added + 1 ELSE added
      /\ run' = [run EXCEPT ![s] =
           AfterReverse([r EXCEPT !.violations = Tail(@),
                                  !.failed = IF ok THEN @
                                             ELSE @ \cup {"add"}])]
      /\ lastOp' = [Op("reverse", "", <<>>, FALSE) EXCEPT !.step = "add"]
      /\ UNCHANGED <<papers, clock, limiter, pool, ingestion>>

Reverse(ss, oks) ==
  \/ \E s \in ss : AuditStart(s, "reverse")
  \/ \E s \in ss :
       /\ run[s].pc = "list"
       /\ \E answer \in Answers, stream \in Streams(store) :
            ReverseList(s, answer, stream)
  \/ \E s \in ss, ok \in oks : ReverseDelete(s, ok)
  \/ \E s \in ss, ok \in oks : ReverseAdd(s, ok)
  \/ \E s \in ss, ok \in oks : run[s].kind = "reverse" /\ DeleteListed(s, ok)

(***************************************************************************)
(* add_interesting_relationships: contradictions written by hand.          *)
(***************************************************************************)
\* the records with a generated id the model lets the script add
MaxAdded == 1

\* the papers that bear the titles of the first contradiction of the list
\* at 42-53: a document id is a hash of the title (generate_paper_id), so
\* that a title is borne by one id.  No paper of PaperIds bears a title
\* of the second contradiction, which the script skips (86-87)
ContradictionTitles == <<"p1", "p2">>

\* the pair as paper_map finds it (55-59); "" when one paper is missing
ContradictionPapers(ps) ==
  IF ps[ContradictionTitles[1]].present /\ ps[ContradictionTitles[2]].present
  THEN ContradictionTitles
  ELSE <<"", "">>

\* the papers are fetched and the direction is chosen (31-75): from the
\* newer paper to the older, from source to target for equal dates;
\* without both dates the contradiction is skipped, and the comparison of
\* an offset-naive with an offset-aware date raises
AddStart(s, pr) ==
  LET source == pr[1]
      target == pr[2]
      source_date == get_paper_date(papers[source])
      target_date == get_paper_date(papers[target])
      rel == IF DateLess(source_date, target_date)
             THEN RelData(target, source, "contradicts", 75)
             ELSE RelData(source, target, "contradicts", 75)
  IN  /\ run[s].status # "running"
      /\ run' = [run EXCEPT ![s] =
           IF source = "" THEN End(Begun("add"), "done")
           ELSE IF ~(source_date.ok /\ target_date.ok)
           THEN End(Begun("add"), "done")
           ELSE IF CompareRaises(source_date, target_date)
           THEN End(Begun("add"), "crashed")
           ELSE [Begun("add") EXCEPT
                   !.pc = "contradict",
                   !.pending = <<[rel EXCEPT !.evidence = "description"]>>]]
      /\ lastOp' = [Op("add", "", <<>>, FALSE) EXCEPT !.step = "papers"]
      /\ UNCHANGED <<papers, store, clock, limiter, pool, ingestion, added>>

\* collection('relationships').add(...) (78-84): a new document id, no
\* 'detected_at', no look at what is stored.  The model stops adding at
\* MaxAdded generated ids and at MaxLegacy records in the collection
AddContradiction(s, ok) ==
  LET r == run[s]
      rel == Head(r.pending)
  IN  /\ r.status = "running" /\ r.kind = "add" /\ r.pc = "contradict"
      /\ ok => added < MaxAdded /\ Cardinality(store) < MaxLegacy
      /\ store' = IF ok
                  THEN store \cup {Doc(AutoId(added + 1), rel, NoTimestamp)}
                  ELSE store
      /\ added' = IF ok THEN added + 1 ELSE added
      /\ run' = [run EXCEPT ![s] =
           IF ok THEN End([r EXCEPT !.pending = <<>>], "done")
           ELSE End([r EXCEPT !.failed = @ \cup {"add"}], "crashed")]
      /\ lastOp' = [Op("add", rel.source_paper_id, <<>>, FALSE)
                      EXCEPT !.step = "add", !.accepted = EdgesOf(<<rel>>)]
      /\ UNCHANGED <<papers, clock, limiter, pool, ingestion>>

AddInterestingRelationships(ss, oks) ==
  \/ \E s \in ss : AddStart(s, ContradictionPapers(papers))
  \/ \E s \in ss, ok \in oks : AddContradiction(s, ok)

\* each auditor run with no fault and no writer at work during the run;
\* add_interesting_relationships runs between two audits
SpecAudit == InitAudit
  /\ [][\/ Cleanup({"s1"}, {TRUE})
        \/ Reverse({"s1"}, {TRUE})
        \/ AddInterestingRelationships({"s1"}, {TRUE})]_vars

\* the auditors with writes that can raise and a process that can be
\* stopped
SpecFault == InitAudit
  /\ [][\/ Cleanup({"s1"}, BOOLEAN)
        \/ Reverse({"s1"}, BOOLEAN)
        \/ Interrupt("s1")]_vars

(***************************************************************************)
(* The auditors over contradictions written at different times.            *)
(***************************************************************************)
\* the values of 'detected_at' (SERVER_TIMESTAMP) of the legacy documents
Stamps == {1, 2}

StampedDocs ==
  {Doc(Sha(e[1], e[2], "contradicts"), RelData(e[1], e[2], "contradicts", 75), at) :
     e \in {x \in PaperIds \X PaperIds : x[1] # x[2] /\ "p1" \in {x[1], x[2]}},
     at \in Stamps}

InitStamped ==
  /\ AuditProfiles
  /\ store \in {st \in SUBSET StampedDocs :
                  /\ Cardinality(st) <= MaxLegacy
                  /\ \A r1, r2 \in st : r1.id = r2.id => r1 = r2}
  /\ Quiet

SpecStamped == InitStamped
  /\ [][Cleanup({"s1"}, {TRUE}) \/ Reverse({"s1"}, {TRUE})]_vars

(***************************************************************************)
(* Workers calling RateLimiter.wait_if_needed.                             *)
(***************************************************************************)
InitLimiter ==
  /\ papers = NoCorpus
  /\ store = {}
  /\ Quiet

InRegion(l) == {w \in Workers : l.pc[w] # "idle"}

\* 'with self.lock', the first prune and the cap check (54-65)
CanEnter(l, w) ==
  /\ l.pc[w] = "idle"
  /\ l.lock = "none"
  /\ Len(l.acquired) < MaxAcq

Entered(l, w, now) ==
  LET pruned == Prune(l.calls, now) IN
  [l EXCEPT
     !.lock = w,
     !.calls = pruned,
     !.pc[w] = IF AtCap(pruned, max_calls) /\ wait_time(pruned, now) > 0
               THEN "sleeping" ELSE "record",
     !.wake[w] = IF AtCap(pruned, max_calls)
                 THEN now + wait_time(pruned, now) ELSE 0]

Enter(w) ==
  /\ CanEnter(limiter, w)
  /\ limiter' = Entered(limiter, w, clock)
  /\ UNCHANGED <<papers, store, clock, lastOp, run, pool, ingestion, added>>

\* time.sleep(wait_time) returns; the second prune (65-68)
CanWake(l, w, now) == l.pc[w] = "sleeping" /\ now >= l.wake[w]

Woken(l, w, now) ==
  [l EXCEPT !.calls = Prune(l.calls, now), !.pc[w] = "record"]

Wake(w) ==
  /\ CanWake(limiter, w, clock)
  /\ limiter' = Woken(limiter, w, clock)
  /\ UNCHANGED <<papers, store, clock, lastOp, run, pool, ingestion, added>>

\* self.calls.append(time.time()) and the end of the 'with' block (71)
Recorded(l, w, now) ==
  [l EXCEPT !.calls = Append(l.calls, now),
            !.acquired = Append(l.acquired, now),
            !.lock = "none",
            !.pc[w] = "idle"]

Record(w) ==
  /\ limiter.pc[w] = "record"
  /\ limiter' = Recorded(limiter, w, clock)
  /\ UNCHANGED <<papers, store, clock, lastOp, run, pool, ingestion, added>>

Tick(d) ==
  /\ limiter.ticks < MaxTicks
  /\ clock' = clock + d
  /\ limiter' = [limiter EXCEPT !.ticks = @ + 1]
  /\ UNCHANGED <<papers, store, lastOp, run, pool, ingestion, added>>

NextLimiter ==
  \/ \E w \in Workers : Enter(w)
  \/ \E w \in Workers : Wake(w)
  \/ \E w \in Workers : Record(w)
  \/ \E d \in TickSteps : Tick(d)

SpecLimiter == InitLimiter /\ [][NextLimiter]_vars

(***************************************************************************)
(* process_paper_batch: the jobs of a batch run                            *)
(* detect_relationship_with_rate_limit on one thread each, the main thread *)
(* collects the futures in the order of submission.  Time passes only when *)
(* every thread is asleep, in a classifier call or finished.               *)
(***************************************************************************)
\* future.result(timeout=60)
result_timeout == 600

MaxBatches == 2

\* the futures list of a batch
Batches == {<<"w1">>, <<"w1", "w2">>}

\* lines 103-112: executor.submit for every paper of the batch, after the
\* executor of the batch before has shut down
SubmitBatch(futures) ==
  /\ pool.batches < MaxBatches
  /\ Len(limiter.acquired) + Len(futures) <= MaxAcq
  /\ pool.next > Len(pool.futures)
  /\ \A w \in Workers : pool.phase[w] \in {"idle", "done"}
  /\ pool' = [NoPool EXCEPT
                !.phase = [w \in Workers |->
                             IF w \in SeqRange(futures) THEN "submitted"
                             ELSE "idle"],
                !.futures = futures,
                !.since = clock,
                !.batches = pool.batches + 1]
  /\ UNCHANGED <<papers, store, clock, lastOp, run, limiter, ingestion, added>>

\* the thread enters rate_limiter.wait_if_needed()
PoolEnter(w) ==
  /\ pool.phase[w] = "submitted"
  /\ CanEnter(limiter, w)
  /\ limiter' = Entered(limiter, w, clock)
  /\ pool' = [pool EXCEPT !.phase[w] = "limiter"]
  /\ UNCHANGED <<papers, store, clock, lastOp, run, ingestion, added>>

PoolWake(w) ==
  /\ pool.phase[w] = "limiter"
  /\ CanWake(limiter, w, clock)
  /\ limiter' = Woken(limiter, w, clock)
  /\ UNCHANGED <<papers, store, clock, lastOp, run, pool, ingestion, added>>

\* wait_if_needed returns, relationship_agent.detect_relationship starts
PoolRecord(w) ==
  /\ pool.phase[w] = "limiter"
  /\ limiter.pc[w] = "record"
  /\ limiter' = Recorded(limiter, w, clock)
  /\ pool' = [pool EXCEPT !.phase[w] = "calling", !.started[w] = clock]
  /\ UNCHANGED <<papers, store, clock, lastOp, run, ingestion, added>>

\* detect_relationship returns, after a latency the model leaves open
Finish(w) ==
  /\ pool.phase[w] = "calling"
  /\ pool' = [pool EXCEPT !.phase[w] = "done"]
  /\ UNCHANGED <<papers, store, clock, lastOp, run, limiter, ingestion, added>>

\* future.result(timeout=60) returns the result (line 118)
Collect ==
  /\ pool.next <= Len(pool.futures)
  /\ pool.phase[pool.futures[pool.next]] = "done"
  /\ pool' = [pool EXCEPT !.outcome[pool.futures[pool.next]] = "used",
                          !.next = @ + 1,
                          !.since = clock]
  /\ UNCHANGED <<papers, store, clock, lastOp, run, limiter, ingestion, added>>

\* future.result(timeout=60) raises TimeoutError, which 'except Exception'
\* logs before the loop continues with the next future (127-129)
Timeout ==
  LET w == pool.futures[pool.next] IN
  /\ pool.next <= Len(pool.futures)
  /\ pool.phase[w] # "done"
  /\ clock >= pool.since + result_timeout
  /\ pool' = [pool EXCEPT !.outcome[w] = "discarded",
                          !.called[w] = IF pool.phase[w] = "calling"
                                        THEN clock - pool.started[w] ELSE 0,
                          !.next = @ + 1,
                          !.since = clock]
  /\ UNCHANGED <<papers, store, clock, lastOp, run, limiter, ingestion, added>>

\* a thread or the main thread can take a step without time passing
Urgent ==
  \/ \E w \in Workers : pool.phase[w] = "submitted" /\ limiter.lock = "none"
  \/ \E w \in Workers : limiter.pc[w] = "record"
  \/ \E w \in Workers : limiter.pc[w] = "sleeping" /\ clock >= limiter.wake[w]
  \/ /\ pool.next <= Len(pool.futures)
     /\ \/ pool.phase[pool.futures[pool.next]] = "done"
        \/ clock >= pool.since + result_timeout

PoolTick(d) ==
  /\ ~Urgent
  /\ \A w \in Workers :
       limiter.pc[w] = "sleeping" => clock + d <= limiter.wake[w]
  /\ pool.next <= Len(pool.futures) => clock + d <= pool.since + result_timeout
  /\ limiter.ticks < MaxTicks
  /\ clock' = clock + d
  /\ limiter' = [limiter EXCEPT !.ticks = @ + 1]
  /\ UNCHANGED <<papers, store, lastOp, run, pool, ingestion, added>>

NextPool ==
  \/ \E futures \in Batches : SubmitBatch(futures)
  \/ \E w \in Workers : PoolEnter(w)
  \/ \E w \in Workers : PoolWake(w)
  \/ \E w \in Workers : PoolRecord(w)
  \/ \E w \in Workers : Finish(w)
  \/ Collect
  \/ Timeout
  \/ \E d \in TickSteps : PoolTick(d)

SpecPool == InitLimiter /\ [][NextPool]_vars

(***************************************************************************)
(* Properties of the detection runs.                                       *)
(***************************************************************************)
DateOf(p) == get_paper_date(papers[p])

\* C1: every stored relationship whose two papers both have a resolvable
\* date points from the newer (or equally recent) paper to the older one.
C1_TemporalInvariant ==
  \A r \in store :
    (DateOf(r.source_paper_id).ok /\ DateOf(r.target_paper_id).ok)
      => DateOf(r.source_paper_id).t >= DateOf(r.target_paper_id).t

\* C2: no two stored relationships have the same (source, target, type).
C2_NoDuplicateTriple ==
  \A r1, r2 \in store :
    (/\ r1.source_paper_id = r2.source_paper_id
     /\ r1.target_paper_id = r2.target_paper_id
     /\ r1.relationship_type = r2.relationship_type) => r1 = r2

\* an ingestion wrote a triple that was stored already, while a batch
\* script was running
C2_Witness ==
  /\ lastOp.op = "ingest" /\ lastOp.replaced
  /\ \E s \in Scripts : run[s].status = "running"
  /\ store # {}

\* C5: ingesting the same paper a second time, the corpus being the same,
\* leaves the set of stored edges as the first ingestion left it.
\* The first call has classified and has stored what it found; the second
\* one starts at once, classifies too and finds only edges that are stored.
C5_SecondIngestAddsNothing ==
  [][\A c \in Calls :
       (/\ ingestion[c].pc = "detect" /\ ingestion[c].repeat
        /\ lastOp.step = "begin" /\ lastOp.paper = ingestion[c].paper
        /\ ingestion'[c] # ingestion[c])
       => EdgesOf(ingestion'[c].pending) \subseteq Edges(store)]_vars

\* the threshold in force for a type in the mode of a handler: the scalar
\* 0.6, or the map contradicts 0.7, extends 0.5, supports 0.5
C7_Threshold(op, ty) ==
  IF op \in {"filtered", "opt56"}
  THEN (IF ty = "contradicts" THEN 70 ELSE 50)
  ELSE 60

\* C7: a relationship written by a step has a confidence of at least the
\* threshold in force for its type in that step's mode, and so has every
\* relationship the filtered mode returns for storing.
C7_ThresholdRespected ==
  [][/\ \A r \in store' \ store :
          r.confidence >= C7_Threshold(lastOp'.op, r.relationship_type)
     /\ \A k \in 1..Len(lastOp'.returned) :
          lastOp'.returned[k].confidence
            >= C7_Threshold(lastOp'.op,
                            lastOp'.returned[k].relationship_type)]_vars

\* the selective mode returned a contradiction, the scalar mode has stored
\* one that the selective mode would turn down
C7_Witness ==
  /\ lastOp.op = "filtered"
  /\ \E k \in 1..Len(lastOp.returned) :
       /\ lastOp.returned[k].relationship_type = "contradicts"
       /\ lastOp.returned[k].confidence >= 70
  /\ \E r \in store :
       r.relationship_type = "contradicts" /\ r.confidence < 70

\* C8: no pair of papers has a 'contradicts' relationship in both
\* directions.
C8_NoBidirectionalContradiction ==
  \A r1, r2 \in store :
    (r1.relationship_type = "contradicts"
       /\ r2.relationship_type = "contradicts")
      => ~(/\ r1.source_paper_id = r2.target_paper_id
           /\ r1.target_paper_id = r2.source_paper_id)

ExistsBetween(st, a, b) ==
  \E r \in st :
    \/ r.source_paper_id = a /\ r.target_paper_id = b
    \/ r.source_paper_id = b /\ r.target_paper_id = a

\* C9: a step of the skip-existing run never classifies a pair for which a
\* relationship is stored, in either direction and of any type.
C9_NoCallOnExistingPair ==
  [][lastOp'.op = "lost" =>
       \A k \in 1..Len(lastOp'.calls) :
         ~ExistsBetween(store, lastOp'.calls[k][1], lastOp'.calls[k][2])]_vars

(***************************************************************************)
(* Properties of the auditors.                                             *)
(***************************************************************************)
TemporalViolation(r) ==
  /\ papers[r.source_paper_id].present /\ papers[r.target_paper_id].present
  /\ DateOf(r.source_paper_id).ok /\ DateOf(r.target_paper_id).ok
  /\ DateOf(r.source_paper_id).t < DateOf(r.target_paper_id).t

DuplicateContradiction(r1, r2) ==
  /\ r1 # r2
  /\ r1.relationship_type = "contradicts"
  /\ r2.relationship_type = "contradicts"
  /\ {r1.source_paper_id, r1.target_paper_id}
       = {r2.source_paper_id, r2.target_paper_id}

\* the documents a run of an auditor has read
Read(s) == SeqRange(run[s].relationships)

\* the run of an auditor in process s has carried out all it set out to do
Carried(s, kind) ==
  run[s].kind = kind /\ run[s].status = "done" /\ run[s].failed = {}

\* the run of the delete strategy in process s is over: it found nothing,
\* or it was told to go on and deleted what it listed, or it stopped on an
\* exception of its audit; no delete has failed
Passed(s) ==
  /\ run[s].kind = "cleanup"
  /\ run[s].status \in {"clean", "done", "crashed"}
  /\ run[s].failed = {}

\* C3: after one pass of the delete strategy over any graph, no delete
\* failing, the store holds no temporal violation and no two contradictions
\* of one unordered pair, so a second audit finds nothing.
C3_CleanupFixedPoint ==
  \A s \in Scripts :
    Passed(s) =>
      /\ \A r \in store : ~TemporalViolation(r)
      /\ \A r1, r2 \in store : ~DuplicateContradiction(r1, r2)

\* C4: a run of the reverse strategy that follows a completed run of it
\* changes nothing in the store.
C4_ReverseIdempotent ==
  [][\A s \in Scripts :
       (/\ run[s].kind = "reverse" /\ run[s].again
        /\ run'[s] # run[s]) => store' = store]_vars

(***************************************************************************)
(* Properties of the full sweep.                                           *)
(***************************************************************************)
UnorderedPairs(ids) == {pr \in SUBSET ids : Cardinality(pr) = 2}

CallsOf(s, pr) ==
  {k \in 1..Len(run[s].calls) :
     {run[s].calls[k][1], run[s].calls[k][2]} = pr}

\* the full sweep of process s has ended
Swept(s) ==
  run[s].kind \in SweepKinds /\ run[s].status \in {"done", "crashed"}

\* C6: a full sweep over papers that all have a resolvable date, once it
\* has ended, has invoked the classifier once for each unordered pair of
\* papers and n(n-1)/2 times in all.
C6_SweepClassifiesEveryPairOnce ==
  \A s \in Scripts :
    (Swept(s) /\ \A p \in Present(papers) : DateOf(p).ok)
      => /\ 2 * Len(run[s].calls)
              = Cardinality(Present(papers))
                  * (Cardinality(Present(papers)) - 1)
         /\ \A pr \in UnorderedPairs(Present(papers)) :
              Cardinality(CallsOf(s, pr)) = 1

(***************************************************************************)
(* Properties of the rate limiter.                                         *)
(***************************************************************************)
\* the acquisitions recorded in the 60 seconds that end at w
InWindow(w) ==
  {k \in 1..Len(limiter.acquired) :
     w - Window < limiter.acquired[k] /\ limiter.acquired[k] <= w}

\* C10: every window of 60 seconds holds at most max_calls recorded
\* acquisitions, and at most one worker, the holder of the lock, is
\* between the lock acquisition and the record.
C10_RateBoundAndAtomicRegion ==
  /\ \A w \in SeqRange(limiter.acquired) \cup {clock} :
       Cardinality(InWindow(w)) <= max_calls
  /\ Cardinality(InRegion(limiter)) <= 1
  /\ \A w \in InRegion(limiter) : limiter.lock = w

\* a worker that found the window full, slept, and was recorded while the
\* other worker waited for the lock
C10_Witness ==
  /\ Len(limiter.acquired) > max_calls
  /\ \E w \in Workers : limiter.wake[w] > 0 /\ limiter.pc[w] = "idle"
  /\ Cardinality(InWindow(clock)) = max_calls

(***************************************************************************)
(* Failure isolation, direction, repair and the confirmation gate.         *)
(***************************************************************************)
\* C12: when a full sweep has dealt with a paper, every edge whose
\* classification cleared the threshold for that paper is stored, whatever
\* happened to the other pairs of the paper.
C12_FailureIsolated ==
  \A s \in Scripts :
    (run[s].kind \in SweepKinds /\ run[s].pc # "store")
      => run[s].found \subseteq Edges(store)

Older(a, b) == DateOf(a).ok /\ DateOf(b).ok /\ DateOf(a).t < DateOf(b).t

\* C13: a full sweep never invokes the classifier with an older paper first
\* and a newer paper second, and never stores an edge from an older paper
\* to a newer one.
C13_SweepDirection ==
  \A s \in Scripts :
    run[s].kind \in SweepKinds =>
      /\ \A k \in 1..Len(run[s].calls) :
           ~Older(run[s].calls[k][1], run[s].calls[k][2])
      /\ \A r \in store : ~Older(r.source_paper_id, r.target_paper_id)

\* a sweep that ended, classified a newer paper against an older one and
\* stored the edge
C13_Witness ==
  \E s \in Scripts :
    /\ run[s].kind \in SweepKinds /\ run[s].status = "done"
    /\ \E k \in 1..Len(run[s].calls) :
         /\ Older(run[s].calls[k][2], run[s].calls[k][1])
         /\ \E r \in store : /\ r.source_paper_id = run[s].calls[k][1]
                             /\ r.target_paper_id = run[s].calls[k][2]

\* C15: a completed pass of the reverse strategy removes every temporal
\* violation r and leaves a record with r's source and target swapped and
\* r's type, confidence and evidence.
C15_ReversePreservesJudgment ==
  \A s \in Scripts :
    Carried(s, "reverse") =>
      \A r \in Read(s) :
        TemporalViolation(r) =>
          /\ \A x \in store : x.id # r.id
          /\ \E n \in store :
               /\ n.source_paper_id = r.target_paper_id
               /\ n.target_paper_id = r.source_paper_id
               /\ n.relationship_type = r.relationship_type
               /\ n.confidence = r.confidence
               /\ n.evidence = r.evidence

\* a pass that reversed a violation: the swapped record is in the store
C15_Witness ==
  \E s \in Scripts :
    /\ Carried(s, "reverse")
    /\ \E r \in Read(s) : TemporalViolation(r)
    /\ \E n \in store : n.id.kind = "auto" /\ n.evidence = Evidence

\* C20: an auditor whose prompt was answered with something other than
\* 'yes' leaves the relationship store as it was: no step it takes after
\* the answer changes the store.
C20_ConfirmationGate ==
  [][\A s \in Scripts :
       (/\ run[s].kind \in {"cleanup", "reverse"}
        /\ run[s].answer = "no"
        /\ run'[s] # run[s]) => store' = store]_vars

\* an auditor that found work, asked, and was told no
C20_Witness ==
  \E s \in Scripts :
    /\ run[s].kind \in {"cleanup", "reverse"} /\ run[s].answer = "no"
    /\ run[s].status = "cancelled"
    /\ lastOp.audit.violations + lastOp.audit.duplicates > 0
    /\ store # {}

\* the document ids of a collection
Ids(st) == {r.id : r \in st}

\* C18: a full sweep is append-only: every relationship that is in the
\* store before a step of the run is still in the store after it
C18_AppendOnly ==
  [][lastOp'.op \in SweepKinds => Ids(store) \subseteq Ids(store')]_vars

\* C14: of the 'contradicts' records of one unordered pair, an audit that
\* found no temporal violation and carried out its deletes keeps the one
\* with the earliest detected_at, whatever the order of the stream
C14_OldestKept ==
  \A s \in Scripts :
    (/\ Carried(s, "cleanup") \/ Carried(s, "reverse")
     /\ \A r \in Read(s) : ~TemporalViolation(r))
    => \A kept \in store : \A r \in Read(s) :
         DuplicateContradiction(kept, r) =>
           kept.detected_at <= r.detected_at

\* C16: every stored relationship has one of the three types, whichever
\* caller of store_relationship wrote it
C16_StoredTypes == \A r \in store : r.relationship_type \in Types

\* C17: the source and the target of every stored relationship are
\* papers of the papers collection
C17_ReferentialIntegrity ==
  \A r \in store :
    papers[r.source_paper_id].present /\ papers[r.target_paper_id].present

\* C19: once a write of a sweep has failed, the run classifies no further
\* pair and does not reach its completion summary
C19_HaltsOnStoreFailure ==
  [][\A s \in Scripts :
       (/\ run[s].kind \in SweepKinds /\ run[s].status = "running"
        /\ "store" \in run[s].failed)
       => /\ Len(run'[s].calls) = Len(run[s].calls)
          /\ run'[s].status # "done"]_vars

\* C11: a job is given up by the main thread only when its classifier call
\* alone has run for the whole timeout, never on account of the time its
\* thread has spent in wait_if_needed
C11_NoJobLostToWaiting ==
  \A w \in Workers :
    pool.outcome[w] = "discarded" => pool.called[w] >= result_timeout

(***************************************************************************)
(* Properties of undated papers, of the skip rule and of the filter.       *)
(***************************************************************************)
Undated(p) == papers[p].present /\ ~DateOf(p).ok

\* C21: when a full sweep has ended, every pair of papers of which one has
\* no date has been passed to the classifier, in one direction or the other
C21_UndatedPairsClassified ==
  \A s \in Scripts :
    Swept(s) =>
      \A a, b \in Present(papers) :
        (a # b /\ (Undated(a) \/ Undated(b))) =>
          \E k \in 1..Len(run[s].calls) :
            run[s].calls[k] \in {<<a, b>>, <<b, a>>}

FilteredOps == {"filtered", "filtered_raised"}

\* the candidates of the call: every other paper of the corpus, or the
\* papers that passed the similarity filter
Candidates ==
  IF lastOp.op \in {"batch", "batch_raised"}
  THEN Present(papers) \ {lastOp.paper}
  ELSE IF lastOp.filter.sim[lastOp.paper] = NoEmbedding THEN {}
  ELSE SeqRange(find_similar_papers(lastOp.paper, get_all_papers(papers),
                  lastOp.filter.sim, lastOp.filter.top_k,
                  lastOp.filter.min_similarity))

Called(a, b) == \E k \in 1..Len(lastOp.calls) : lastOp.calls[k] = <<a, b>>

\* C22: a candidate with a date later than the new paper's is neither
\* classified nor returned; a candidate with an earlier or equal date is
\* classified
C22_SkipRule ==
  lastOp.op \in {"batch", "batch_raised"} \cup FilteredOps =>
    \A e \in Candidates :
      (DateOf(lastOp.paper).ok /\ DateOf(e).ok) =>
        IF DateOf(lastOp.paper).t < DateOf(e).t
        THEN /\ ~Called(lastOp.paper, e)
             /\ \A ty \in Types : <<lastOp.paper, e, ty>> \notin lastOp.accepted
        ELSE Called(lastOp.paper, e)

\* what the two auditors find for a stored edge a -> b
AuditOf(a, b) ==
  find_temporal_violations(
    <<Doc(Sha(a, b, "supports"), RelData(a, b, "supports", 65), 0)>>,
    papers, <<>>)

ReverseAuditOf(a, b) ==
  find_temporal_violations_to_reverse(
    <<Doc(Sha(a, b, "supports"), RelData(a, b, "supports", 65), 0)>>,
    papers, <<>>)

\* C23: the batch skips a candidate exactly when both auditors flag the
\* edge from the new paper to the candidate, and the comparison of the
\* batch raises exactly when the comparison of the auditors does
C23_EngineAndAuditorAgree ==
  /\ lastOp.op = "batch" =>
       \A e \in Present(papers) \ {lastOp.paper} :
         /\ AuditOf(lastOp.paper, e).status = "ok"
         /\ ReverseAuditOf(lastOp.paper, e).status = "ok"
         /\ ~Called(lastOp.paper, e)
              <=> AuditOf(lastOp.paper, e).violations # <<>>
         /\ ~Called(lastOp.paper, e)
              <=> ReverseAuditOf(lastOp.paper, e).violations # <<>>
  /\ lastOp.op = "batch_raised" =>
       \E e \in Present(papers) \ {lastOp.paper} :
         /\ AuditOf(lastOp.paper, e).status = "raise"
         /\ ReverseAuditOf(lastOp.paper, e).status = "raise"

\* a call that skipped one candidate and classified another of equal date
C23_Witness ==
  /\ lastOp.op = "batch"
  /\ \E e \in Present(papers) \ {lastOp.paper} :
       ~Called(lastOp.paper, e) /\ AuditOf(lastOp.paper, e).violations # <<>>
  /\ \E e \in Present(papers) \ {lastOp.paper} :
       /\ Called(lastOp.paper, e)
       /\ DateOf(e).ok /\ DateOf(e) = DateOf(lastOp.paper)

\* the candidates that may be compared with the new paper of the call
Eligible ==
  {q \in Present(papers) \ {lastOp.paper} :
     /\ lastOp.filter.sim[q] # NoEmbedding
     /\ lastOp.filter.sim[q] >= lastOp.filter.min_similarity}

\* C24: the filtered batch classifies at most top_k candidates, each of
\* them another paper with a cached embedding and a similarity of at least
\* min_similarity, and fewer than top_k such candidates score higher than
\* a classified one
C24_TopKFilter ==
  lastOp.op \in FilteredOps =>
    /\ Len(lastOp.calls) <= lastOp.filter.top_k
    /\ \A k \in 1..Len(lastOp.calls) :
         /\ lastOp.calls[k][1] = lastOp.paper
         /\ lastOp.calls[k][2] \in Eligible
         /\ Cardinality({q \in Eligible :
                           lastOp.filter.sim[q]
                             > lastOp.filter.sim[lastOp.calls[k][2]]})
              < lastOp.filter.top_k

\* top_k = 1, two candidates above the floor with different scores, the
\* higher one classified
C24_Witness ==
  /\ lastOp.op = "filtered"
  /\ lastOp.filter.top_k = 1
  /\ Cardinality(Eligible) = 2
  /\ \E q \in Eligible :
       /\ lastOp.calls = <<<<lastOp.paper, q>>>>
       /\ \A o \in Eligible \ {q} : lastOp.filter.sim[o] < lastOp.filter.sim[q]

(***************************************************************************)
(* Properties of the repairs.                                              *)
(***************************************************************************)
Contradiction(st, a, b) ==
  {r \in st : /\ r.relationship_type = "contradicts"
              /\ r.source_paper_id = a /\ r.target_paper_id = b}

\* C25: of a contradiction stored in both directions between two papers
\* with different dates, a completed pass of the delete strategy leaves
\* the newer -> older record and nothing else
C25_KeepsNewerToOlder ==
  \A s \in Scripts :
    Carried(s, "cleanup") =>
      \A a, b \in Present(papers) :
        (/\ DateOf(a).ok /\ DateOf(b).ok
         /\ DateOf(a).aware = DateOf(b).aware
         /\ DateOf(a).t > DateOf(b).t
         /\ Contradiction(Read(s), a, b) # {}
         /\ Contradiction(Read(s), b, a) # {})
        => /\ Contradiction(store, a, b) # {}
           /\ Contradiction(store, b, a) = {}

\* C26: the document id of every stored relationship is the hash of its own
\* source, target and type
C26_IdIsHashOfTriple == \A r \in store : r.id = relationship_id(r)

\* C27: for every temporal violation that a pass of the reverse strategy
\* sets out to repair, the original record or its reversed replacement is
\* in the store when the pass ends, however it ends
C27_NeverLost ==
  \A s \in Scripts :
    (run[s].kind = "reverse" /\ run[s].status \in {"done", "interrupted"})
      => \A r \in Read(s) :
           TemporalViolation(r) =>
             \/ \E o \in store : o.id = r.id
             \/ \E n \in store :
                  /\ n.source_paper_id = r.target_paper_id
                  /\ n.target_paper_id = r.source_paper_id
                  /\ n.relationship_type = r.relationship_type

\* C28: a detection run that stores again a relationship whose document
\* exists already, with the confidence and the evidence it was stored with,
\* leaves that document as it was, detected_at included
C28_RestoreChangesNothing ==
  [][(lastOp'.op = "ingest" /\ lastOp'.step = "store") =>
       \A r \in store : \A n \in store' :
         (/\ n.id = r.id
          /\ n.confidence = r.confidence
          /\ n.evidence = r.evidence) => n = r]_vars

(***************************************************************************)
(* Properties that relate or span the detection paths.                     *)
(***************************************************************************)
\* C29: with a classifier that answers every call, the relationships a
\* step of the parallel sweep finds for a paper, and goes on to store, are
\* those the sequential sweep returns for the same paper and the same
\* answers
C29_ParallelMatchesSequential ==
  [][(lastOp'.op = "sweep_par" /\ lastOp'.step = "classify") =>
       /\ lastOp'.twin.status # "raise"
       /\ SeqRange(lastOp'.twin.calls) = SeqRange(lastOp'.calls)
       /\ Len(lastOp'.twin.calls) = Len(lastOp'.calls)
       /\ EdgesOf(lastOp'.twin.rels) = lastOp'.accepted
       /\ \A s \in Scripts :
            run'[s] # run[s] => run'[s].pending = lastOp'.twin.rels]_vars

\* a finished parallel sweep over dated and undated papers that stored one
\* edge and turned down an answer of 'none'
C29_Witness ==
  /\ lastOp.op = "sweep_par"
  /\ \E s \in Scripts : run[s].status = "done" /\ Len(run[s].calls) = 3
  /\ Cardinality(store) = 2
  /\ \E p, q \in PaperIds : DateOf(p).ok /\ ~DateOf(q).ok

SelfCalls(calls) == {k \in 1..Len(calls) : calls[k][1] = calls[k][2]}

\* C30: no detection path classifies a paper against itself, and no stored
\* record has the same paper as source and target
C30_NoSelfComparison ==
  /\ SelfCalls(lastOp.calls) = {}
  /\ \A s \in Scripts : SelfCalls(run[s].calls) = {}
  /\ \A r \in store : r.source_paper_id # r.target_paper_id
  /\ \A c \in Calls : \A k \in 1..Len(ingestion[c].pending) :
       ingestion[c].pending[k].source_paper_id
         # ingestion[c].pending[k].target_paper_id
  /\ \A k \in 1..Len(lastOp.returned) :
       lastOp.returned[k].source_paper_id
         # lastOp.returned[k].target_paper_id

\* an ingestion whose fetched corpus holds the new paper and another one,
\* which classified the pair and has an edge to store
C30_Witness ==
  /\ lastOp.op = "ingest" /\ lastOp.step = "detect"
  /\ papers[lastOp.paper].present
  /\ Len(lastOp.calls) >= 1
  /\ \E c \in Calls : \E k \in 1..Len(ingestion[c].pending) :
       ingestion[c].pending[k].source_paper_id = lastOp.paper
====
